---- MODULE Spec2Model ----
(***************************************************************************)
(* Petition ledger of the Fair Go Justice API (api/routes/petition.js and  *)
(* the Petition mongoose model): GET /count, GET /recent and POST /sign    *)
(* running as concurrent request handlers over one MongoDB collection.     *)
(*                                                                         *)
(* Strings are sequences of one-character strings, so that trim, escape,   *)
(* lower-casing and parseInt are computed and not assumed.                 *)
(***************************************************************************)
EXTENDS Integers, Sequences, FiniteSets, TLC

VARIABLES ledger, now, pc, req, cnt, stamp, resp, err, countResp, recentResp,
          stories, messages, apc, areq, aresp,
          registrations, gpc, greq, gresp,
          hits, resetTime, lresp, served,
          quizResults, qpc, qreq, qresp,
          currentQuestion, thisAnswers, thisScore, container, selected

\* the Story and Contact collections and the administrative request in hand
adminVars == <<stories, messages, apc, areq, aresp>>

\* the ClassActionRegistration collection and the registration in hand
registerVars == <<registrations, gpc, greq, gresp>>

\* the rate limiter's store (hits and end of window per client address), the
\* response sent last under /api/ and, per client address, the requests
\* that reached a route handler since its window began
limiterVars == <<hits, resetTime, lresp, served>>

\* the collection of quiz results, the position of the handler of POST
\* /api/quiz/submit, its request and its response
quizVars == <<quizResults, qpc, qreq, qresp>>

\* the Quiz object of the page (this.currentQuestion, this.answers,
\* this.score), what its container shows and the option that is selected
clientVars == <<currentQuestion, thisAnswers, thisScore, container, selected>>

\* the state of the routes other than the petition and administrative ones,
\* and of the page
otherVars == <<registerVars, limiterVars, quizVars, clientVars>>

vars == <<ledger, now, pc, req, cnt, stamp, resp, err, countResp, recentResp,
          stories, messages, apc, areq, aresp, otherVars>>

(***************************************************************************)
(* Bounds of the model.                                                    *)
(***************************************************************************)
\* number of POST /sign requests in flight in one run
MaxReq == 2
\* number of clock ticks (milliseconds of Date.now) in one run
MaxClock == 1
\* largest ledger the read-path specification starts from
MaxLedger == 12

Slots == 1..MaxReq

(***************************************************************************)
(* Program constants.                                                      *)
(***************************************************************************)
baseCount == 12847
commentMaxLength == 1000

(***************************************************************************)
(* String helpers (JavaScript / express-validator / mongoose setters).     *)
(***************************************************************************)
Digits == {"0", "1", "2", "3", "4", "5", "6", "7", "8", "9"}

DigitVal(c) ==
  CASE c = "0" -> 0 [] c = "1" -> 1 [] c = "2" -> 2 [] c = "3" -> 3
    [] c = "4" -> 4 [] c = "5" -> 5 [] c = "6" -> 6 [] c = "7" -> 7
    [] c = "8" -> 8 [] c = "9" -> 9 [] OTHER -> 0

RECURSIVE TrimLeft(_)
TrimLeft(s) ==
  IF s # <<>> /\ Head(s) = " " THEN TrimLeft(Tail(s)) ELSE s

RECURSIVE TrimRight(_)
TrimRight(s) ==
  IF s # <<>> /\ s[Len(s)] = " " THEN TrimRight(SubSeq(s, 1, Len(s) - 1)) ELSE s

\* String.prototype.trim / validator trim()
Trim(s) == TrimRight(TrimLeft(s))

\* validator escape(): HTML-special characters become entities
EscapeChar(c) ==
  CASE c = "<" -> "&lt;" [] c = ">" -> "&gt;" [] c = "&" -> "&amp;" [] OTHER -> c

Escape(s) == [i \in 1..Len(s) |-> EscapeChar(s[i])]

LowerChar(c) ==
  CASE c = "A" -> "a" [] c = "B" -> "b" [] c = "X" -> "x" [] c = "Y" -> "y"
    [] OTHER -> c

\* String.prototype.toLowerCase
ToLower(s) == [i \in 1..Len(s) |-> LowerChar(s[i])]

\* positions of character c in s
Positions(s, c) == {i \in 1..Len(s) : s[i] = c}

\* validator isEmail(): one "@", a non-empty local part, a domain with a
\* dot that has non-empty labels on both sides, no blanks
IsEmail(s) ==
  /\ Cardinality(Positions(s, "@")) = 1
  /\ Positions(s, " ") = {}
  /\ LET at == CHOOSE i \in Positions(s, "@") : TRUE
         dots == {i \in Positions(s, ".") : i > at}
     IN /\ at > 1
        /\ dots # {}
        /\ \A d \in dots : d > at + 1 /\ d < Len(s) /\ (d + 1) \notin dots
        /\ \A d \in Positions(s, ".") : d < at => (d > 1 /\ d < at - 1)

\* validator normalizeEmail() with its defaults (all_lowercase)
NormalizeEmail(s) == ToLower(s)

\* /^\d{4}$/
MatchesPostcode(s) == Len(s) = 4 /\ \A i \in 1..4 : s[i] \in Digits

RECURSIVE ParseDigits(_, _)
ParseDigits(s, acc) ==
  IF s = <<>> \/ Head(s) \notin Digits THEN acc
  ELSE ParseDigits(Tail(s), acc * 10 + DigitVal(Head(s)))

\* parseInt(postcode, 10) on a string that starts with a digit
ParseInt(s) == ParseDigits(s, 0)

(***************************************************************************)
(* postcodeToLocation, range test by range test in the order of the code.  *)
(***************************************************************************)
\* (variant) the second ACT range starts at 2900
postcodeToLocation_Act2900(postcode) ==
  LET code == ParseInt(postcode) IN
  IF code >= 2000 /\ code <= 2599 THEN "NSW"
  ELSE IF code >= 2600 /\ code <= 2618 THEN "ACT"
  ELSE IF code >= 2619 /\ code <= 2899 THEN "NSW"
  ELSE IF code >= 2900 /\ code <= 2920 THEN "ACT"
  ELSE IF code >= 2921 /\ code <= 2999 THEN "NSW"
  ELSE IF code >= 3000 /\ code <= 3999 THEN "VIC"
  ELSE IF code >= 8000 /\ code <= 8999 THEN "VIC"
  ELSE IF code >= 4000 /\ code <= 4999 THEN "QLD"
  ELSE IF code >= 9000 /\ code <= 9999 THEN "QLD"
  ELSE IF code >= 5000 /\ code <= 5999 THEN "SA"
  ELSE IF code >= 6000 /\ code <= 6999 THEN "WA"
  ELSE IF code >= 7000 /\ code <= 7999 THEN "TAS"
  ELSE IF code >= 800 /\ code <= 899 THEN "NT"
  ELSE "Australia"

postcodeToLocation(postcode) ==
  LET code == ParseInt(postcode) IN
  IF code >= 2000 /\ code <= 2599 THEN "NSW"
  ELSE IF code >= 2600 /\ code <= 2618 THEN "ACT"
  ELSE IF code >= 2619 /\ code <= 2898 THEN "NSW"
  ELSE IF code >= 2899 /\ code <= 2920 THEN "ACT"
  ELSE IF code >= 2921 /\ code <= 2999 THEN "NSW"
  ELSE IF code >= 3000 /\ code <= 3999 THEN "VIC"
  ELSE IF code >= 8000 /\ code <= 8999 THEN "VIC"
  ELSE IF code >= 4000 /\ code <= 4999 THEN "QLD"
  ELSE IF code >= 9000 /\ code <= 9999 THEN "QLD"
  ELSE IF code >= 5000 /\ code <= 5799 THEN "SA"
  ELSE IF code >= 5800 /\ code <= 5999 THEN "SA"
  ELSE IF code >= 6000 /\ code <= 6797 THEN "WA"
  ELSE IF code >= 6800 /\ code <= 6999 THEN "WA"
  ELSE IF code >= 7000 /\ code <= 7799 THEN "TAS"
  ELSE IF code >= 7800 /\ code <= 7999 THEN "TAS"
  ELSE IF code >= 800 /\ code <= 899 THEN "NT"
  ELSE "Australia"


(***************************************************************************)
(* The range tests of postcodeToLocation as a list, in the order of the    *)
(* code, and the location that a list of range tests gives when its tests  *)
(* are tried one after the other.                                          *)
(***************************************************************************)
\* (variant) the third NSW range ends at 2899, where the second ACT range
\* begins
RangeTests_NswTo2899 ==
  << <<2000, 2599, "NSW">>, <<2600, 2618, "ACT">>, <<2619, 2899, "NSW">>,
     <<2899, 2920, "ACT">>, <<2921, 2999, "NSW">>,
     <<3000, 3999, "VIC">>, <<8000, 8999, "VIC">>,
     <<4000, 4999, "QLD">>, <<9000, 9999, "QLD">>,
     <<5000, 5799, "SA">>, <<5800, 5999, "SA">>,
     <<6000, 6797, "WA">>, <<6800, 6999, "WA">>,
     <<7000, 7799, "TAS">>, <<7800, 7999, "TAS">>,
     <<800, 899, "NT">> >>

RangeTests ==
  << <<2000, 2599, "NSW">>, <<2600, 2618, "ACT">>, <<2619, 2898, "NSW">>,
     <<2899, 2920, "ACT">>, <<2921, 2999, "NSW">>,
     <<3000, 3999, "VIC">>, <<8000, 8999, "VIC">>,
     <<4000, 4999, "QLD">>, <<9000, 9999, "QLD">>,
     <<5000, 5799, "SA">>, <<5800, 5999, "SA">>,
     <<6000, 6797, "WA">>, <<6800, 6999, "WA">>,
     <<7000, 7799, "TAS">>, <<7800, 7999, "TAS">>,
     <<800, 899, "NT">> >>

\* if (code >= lo && code <= hi)
Satisfies(code, test) == code >= test[1] /\ code <= test[2]

\* the tests tried in the order of the list, 'Australia' when none holds
RECURSIVE LocationBy(_, _)
LocationBy(tests, code) ==
  IF tests = <<>> THEN "Australia"
  ELSE IF Satisfies(code, Head(tests)) THEN Head(tests)[3]
  ELSE LocationBy(Tail(tests), code)

(***************************************************************************)

(* Request bodies.  A JSON value of an optional flag is one of the tags    *)
(* below; comment is carried as its length in characters after trimming    *)
(* (0 when the field is absent or empty).                                  *)
(***************************************************************************)
JsUndefined == "undefined"
JsFalse == "false"
JsTrue == "true"
JsNull == "null"
JsZero == "0"
JsStringFalse == "'false'"
JsStringOn == "'on'"

\* the JSON values a client may send in an optional flag (the field left
\* out, the booleans, null, a number, and strings as a form's FormData has)
JsValues == {JsUndefined, JsFalse, JsTrue, JsNull, JsZero, JsStringFalse, JsStringOn}

BaseBody ==
  [firstName |-> <<" ", "<", "S">>, lastName |-> <<"M">>,
   email |-> <<"a", "@", "x", ".", "y">>, postcode |-> <<"2", "0", "0", "0">>,
   comment |-> 0, displayName |-> JsUndefined, subscribe |-> JsUndefined,
   verified |-> JsUndefined, ip |-> "203.0.113.7"]

\* bodies that pass the validation chain: the base body, the same address
\* in capitals, another signer who sends displayName: false and a field
\* verified: true, an over-long comment
ValidBodies ==
  {BaseBody,
   [BaseBody EXCEPT !.email = <<"A", "@", "x", ".", "y">>],
   [BaseBody EXCEPT !.email = <<"b", "@", "x", ".", "y">>, !.displayName = JsFalse,
                    !.verified = JsTrue],
   [BaseBody EXCEPT !.comment = commentMaxLength + 1]}

\* bodies that fail it in one field, and in all four
InvalidBodies ==
  {[BaseBody EXCEPT !.firstName = <<" ">>],
   [BaseBody EXCEPT !.lastName = <<>>],
   [BaseBody EXCEPT !.email = <<"a", "x">>],
   [BaseBody EXCEPT !.postcode = <<"2", "0", "0">>],
   [BaseBody EXCEPT !.firstName = <<" ">>, !.lastName = <<>>,
                    !.email = <<"a", "x">>, !.postcode = <<"2", "0", "0">>]}

Bodies == ValidBodies \cup InvalidBodies

NoBody ==
  [firstName |-> <<>>, lastName |-> <<>>, email |-> <<>>, postcode |-> <<>>,
   comment |-> 0, displayName |-> JsUndefined, subscribe |-> JsUndefined,
   verified |-> JsUndefined, ip |-> ""]

(***************************************************************************)
(* Responses of POST /sign.                                                *)
(***************************************************************************)
NoResp ==
  [status |-> 0, errors |-> <<>>, error |-> "", message |-> "", signatureNumber |-> 0]

ValidationResp(errors) ==
  [status |-> 400, errors |-> errors, error |-> "", message |-> "", signatureNumber |-> 0]

DuplicateResp ==
  [status |-> 400, errors |-> <<>>, error |-> "You have already signed this petition",
   message |-> "", signatureNumber |-> 0]

\* (variant) the message of the caught error is sent to the caller
FailureResp_Detail ==
  [status |-> 500, errors |-> <<>>,
   error |-> "E11000 duplicate key error collection: petitions index: email_1",
   message |-> "", signatureNumber |-> 0]

FailureResp ==
  [status |-> 500, errors |-> <<>>,
   error |-> "Failed to record signature. Please try again.",
   message |-> "", signatureNumber |-> 0]

\* (variant) the number is the count read, without the new signature
CreatedResp_NotCounted(count) ==
  [status |-> 201, errors |-> <<>>, error |-> "",
   message |-> "Thank you for signing! Your voice matters.",
   signatureNumber |-> count + 12847]

\* (variant) the number is one ahead: count + 2 + 12847
CreatedResp_OneAhead(count) ==
  [status |-> 201, errors |-> <<>>, error |-> "",
   message |-> "Thank you for signing! Your voice matters.",
   signatureNumber |-> count + 2 + 12847]

CreatedResp(count) ==
  [status |-> 201, errors |-> <<>>, error |-> "",
   message |-> "Thank you for signing! Your voice matters.",
   signatureNumber |-> count + 1 + 12847]

(***************************************************************************)
(* The validation chain of POST /sign (express-validator).                 *)
(***************************************************************************)
\* the sanitizers of the chain: trim, escape, normalizeEmail
Sanitize(b) ==
  [b EXCEPT !.firstName = Escape(Trim(b.firstName)),
            !.lastName = Escape(Trim(b.lastName)),
            !.email = NormalizeEmail(b.email)]

\* (variant) the postcode is not validated
ValidationErrors_NoPostcode(b) ==
  (IF Trim(b.firstName) = <<>> THEN <<"firstName">> ELSE <<>>)
    \o (IF Trim(b.lastName) = <<>> THEN <<"lastName">> ELSE <<>>)
    \o (IF ~IsEmail(b.email) THEN <<"email">> ELSE <<>>)

\* one error per failing field, in the order of the chain
ValidationErrors(b) ==
  (IF Trim(b.firstName) = <<>> THEN <<"firstName">> ELSE <<>>)
    \o (IF Trim(b.lastName) = <<>> THEN <<"lastName">> ELSE <<>>)
    \o (IF ~IsEmail(b.email) THEN <<"email">> ELSE <<>>)
    \o (IF ~MatchesPostcode(b.postcode) THEN <<"postcode">> ELSE <<>>)

(***************************************************************************)
(* The Petition model and the store.                                       *)
(***************************************************************************)
\* setters of the schema's email path: lowercase, trim
SchemaEmail(e) == ToLower(Trim(e))

\* (variant) the document is built from the whole body: new Petition(req.body)
NewPetition_WholeBody(b) ==
  [firstName |-> Trim(b.firstName), lastName |-> Trim(b.lastName),
   email |-> SchemaEmail(b.email), postcode |-> b.postcode,
   comment |-> b.comment,
   displayName |-> (b.displayName # JsFalse),
   subscribe |-> (b.subscribe # JsFalse),
   location |-> postcodeToLocation(b.postcode),
   ipAddress |-> b.ip,
   verified |-> (b.verified = JsTrue)]

\* (variant) the flags are read by their truthiness: displayName: !!displayName
NewPetition_Truthy(b) ==
  [firstName |-> Trim(b.firstName), lastName |-> Trim(b.lastName),
   email |-> SchemaEmail(b.email), postcode |-> b.postcode,
   comment |-> b.comment,
   displayName |-> (b.displayName \in {JsTrue, JsStringFalse, JsStringOn}),
   subscribe |-> (b.subscribe \in {JsTrue, JsStringFalse, JsStringOn}),
   location |-> postcodeToLocation(b.postcode),
   ipAddress |-> b.ip,
   verified |-> FALSE]

\* new Petition({...}) as built by the handler from the sanitized body; the
\* verified path is not passed and takes the schema's default
NewPetition(b) ==
  [firstName |-> Trim(b.firstName), lastName |-> Trim(b.lastName),
   email |-> SchemaEmail(b.email), postcode |-> b.postcode,
   comment |-> b.comment,
   displayName |-> (b.displayName # JsFalse),
   subscribe |-> (b.subscribe # JsFalse),
   location |-> postcodeToLocation(b.postcode),
   ipAddress |-> b.ip,
   verified |-> FALSE]

\* mongoose document validation run by save()
SchemaValid(doc) ==
  /\ doc.firstName # <<>>
  /\ doc.lastName # <<>>
  /\ doc.email # <<>>
  /\ MatchesPostcode(doc.postcode)
  /\ doc.comment <= commentMaxLength

\* (variant) the lookup never finds a record
FindOne_Null(led, email) == 0

\* (variant) the lookup ignores its filter and returns the first record
FindOne_NoFilter(led, email) == IF led = <<>> THEN 0 ELSE 1

\* Petition.findOne({ email }): index of a matching record, 0 for null
FindOne(led, email) ==
  IF \E i \in 1..Len(led) : led[i].email = SchemaEmail(email)
    THEN CHOOSE i \in 1..Len(led) : led[i].email = SchemaEmail(email)
    ELSE 0

\* Petition.countDocuments()
CountDocuments(led) == Len(led)

\* (variant) the email path has no unique index
UniqueIndexOk_NoIndex(led, email) == TRUE

\* the unique index on email admits the insert
UniqueIndexOk(led, email) == \A i \in 1..Len(led) : led[i].email # email

\* the stored document: _id in insertion order, createdAt as stamped
Stored(doc, id, time) ==
  [_id |-> id, firstName |-> doc.firstName, lastName |-> doc.lastName,
   email |-> doc.email, postcode |-> doc.postcode, comment |-> doc.comment,
   displayName |-> doc.displayName, subscribe |-> doc.subscribe,
   location |-> doc.location, ipAddress |-> doc.ipAddress,
   verified |-> doc.verified, createdAt |-> time]

(***************************************************************************)
(* POST /sign, one action per step between two awaits.                     *)
(***************************************************************************)
\* the handler returns: the response is sent, the caught error was logged,
\* the handler's locals go out of scope
Finish(r, response, error) ==
  /\ pc' = [pc EXCEPT ![r] = "done"]
  /\ resp' = [resp EXCEPT ![r] = response]
  /\ err' = [err EXCEPT ![r] = error]
  /\ cnt' = [cnt EXCEPT ![r] = 0]
  /\ stamp' = [stamp EXCEPT ![r] = 0]

\* a client sends a request; slots are taken in order
Submit(r) ==
  /\ pc[r] = "idle"
  /\ IF r = 1 THEN TRUE ELSE pc[r - 1] # "idle"
  /\ \E b \in Bodies : req' = [req EXCEPT ![r] = b]
  /\ pc' = [pc EXCEPT ![r] = "received"]
  /\ UNCHANGED <<ledger, now, cnt, stamp, resp, err, countResp, recentResp>>
  /\ UNCHANGED <<adminVars, otherVars>>

\* (variant) the duplicate lookup comes first: a body whose email is in the
\* ledger is answered as a duplicate before validationResult is inspected
SignValidate_LookupFirst(r) ==
  /\ pc[r] = "received"
  /\ LET errors == ValidationErrors(req[r]) IN
       IF FindOne(ledger, Sanitize(req[r]).email) # 0
         THEN /\ Finish(r, DuplicateResp, "none")
              /\ req' = [req EXCEPT ![r] = Sanitize(req[r])]
       ELSE IF errors # <<>>
         THEN /\ Finish(r, ValidationResp(errors), "none")
              /\ req' = [req EXCEPT ![r] = Sanitize(req[r])]
         ELSE /\ pc' = [pc EXCEPT ![r] = "findOne"]
              /\ req' = [req EXCEPT ![r] = Sanitize(req[r])]
              /\ UNCHANGED <<resp, err, cnt, stamp>>
  /\ UNCHANGED <<ledger, now, countResp, recentResp>>
  /\ UNCHANGED <<adminVars, otherVars>>

\* the validation chain runs, then validationResult is inspected
SignValidate(r) ==
  /\ pc[r] = "received"
  /\ LET errors == ValidationErrors(req[r]) IN
       IF errors # <<>>
         THEN /\ Finish(r, ValidationResp(errors), "none")
              /\ req' = [req EXCEPT ![r] = Sanitize(req[r])]
         ELSE /\ pc' = [pc EXCEPT ![r] = "findOne"]
              /\ req' = [req EXCEPT ![r] = Sanitize(req[r])]
              /\ UNCHANGED <<resp, err, cnt, stamp>>
  /\ UNCHANGED <<ledger, now, countResp, recentResp>>
  /\ UNCHANGED <<adminVars, otherVars>>

\* (variant) signing again refreshes the stored signature
SignFindOne_Refresh(r) ==
  /\ pc[r] = "findOne"
  /\ LET old == FindOne(ledger, req[r].email) IN
       IF old # 0
         THEN /\ ledger' = [ledger EXCEPT ![old] = Stored(NewPetition(req[r]), old, now)]
              /\ Finish(r, DuplicateResp, "none")
         ELSE /\ pc' = [pc EXCEPT ![r] = "count"]
              /\ UNCHANGED <<ledger, resp, err, cnt, stamp>>
  /\ UNCHANGED <<now, req, countResp, recentResp>>
  /\ UNCHANGED <<adminVars, otherVars>>

\* await Petition.findOne({ email }) returns
SignFindOne(r) ==
  /\ pc[r] = "findOne"
  /\ IF FindOne(ledger, req[r].email) # 0
       THEN Finish(r, DuplicateResp, "none")
       ELSE /\ pc' = [pc EXCEPT ![r] = "count"]
            /\ UNCHANGED <<resp, err, cnt, stamp>>
  /\ UNCHANGED <<ledger, now, req, countResp, recentResp>>
  /\ UNCHANGED <<adminVars, otherVars>>

\* await Petition.findOne throws: the store is unreachable
SignFindOneFail(r) ==
  /\ pc[r] = "findOne"
  /\ Finish(r, FailureResp, "unavailable")
  /\ UNCHANGED <<ledger, now, req, countResp, recentResp>>
  /\ UNCHANGED <<adminVars, otherVars>>

\* await Petition.countDocuments() returns and signature.save() is called:
\* the timestamps hook sets createdAt before the insert is sent
SignCount(r) ==
  /\ pc[r] = "count"
  /\ cnt' = [cnt EXCEPT ![r] = CountDocuments(ledger)]
  /\ stamp' = [stamp EXCEPT ![r] = now]
  /\ pc' = [pc EXCEPT ![r] = "save"]
  /\ UNCHANGED <<ledger, now, req, resp, err, countResp, recentResp>>
  /\ UNCHANGED <<adminVars, otherVars>>

SignCountFail(r) ==
  /\ pc[r] = "count"
  /\ Finish(r, FailureResp, "unavailable")
  /\ UNCHANGED <<ledger, now, req, countResp, recentResp>>
  /\ UNCHANGED <<adminVars, otherVars>>

\* (variant) save() replaces the stored record of the same email
SignSave_Upsert(r) ==
  /\ pc[r] = "save"
  /\ LET doc == NewPetition(req[r])
         old == FindOne(ledger, doc.email)
     IN /\ ledger' = IF old = 0
                       THEN Append(ledger, Stored(doc, Len(ledger) + 1, stamp[r]))
                       ELSE [ledger EXCEPT ![old] = Stored(doc, old, stamp[r])]
        /\ Finish(r, CreatedResp(cnt[r]), "none")
  /\ UNCHANGED <<now, req, countResp, recentResp>>
  /\ UNCHANGED <<adminVars, otherVars>>

\* (variant) the signature number is the key of the stored document: a
\* save() under a number that is taken replaces the document stored there
SignSave_NumberAsKey(r) ==
  /\ pc[r] = "save"
  /\ LET doc == NewPetition(req[r])
         key == cnt[r] + 1
     IN IF ~SchemaValid(doc)
          THEN /\ Finish(r, FailureResp, "ValidationError")
               /\ UNCHANGED ledger
        ELSE IF ~UniqueIndexOk(ledger, doc.email)
          THEN /\ Finish(r, FailureResp, "E11000")
               /\ UNCHANGED ledger
        ELSE /\ ledger' = IF key <= Len(ledger)
                            THEN [ledger EXCEPT ![key] = Stored(doc, key, stamp[r])]
                            ELSE Append(ledger, Stored(doc, Len(ledger) + 1, stamp[r]))
             /\ Finish(r, CreatedResp(cnt[r]), "none")
  /\ UNCHANGED <<now, req, countResp, recentResp>>
  /\ UNCHANGED <<adminVars, otherVars>>

\* await signature.save() returns or throws
SignSave(r) ==
  /\ pc[r] = "save"
  /\ LET doc == NewPetition(req[r]) IN
       IF ~SchemaValid(doc)
         THEN /\ Finish(r, FailureResp, "ValidationError")
              /\ UNCHANGED ledger
       ELSE IF ~UniqueIndexOk(ledger, doc.email)
         THEN /\ Finish(r, FailureResp, "E11000")
              /\ UNCHANGED ledger
       ELSE /\ ledger' = Append(ledger, Stored(doc, Len(ledger) + 1, stamp[r]))
            /\ Finish(r, CreatedResp(cnt[r]), "none")
  /\ UNCHANGED <<now, req, countResp, recentResp>>
  /\ UNCHANGED <<adminVars, otherVars>>

SignSaveFail(r) ==
  /\ pc[r] = "save"
  /\ Finish(r, FailureResp, "unavailable")
  /\ UNCHANGED <<ledger, now, req, countResp, recentResp>>
  /\ UNCHANGED <<adminVars, otherVars>>

\* Date.now() advances
Tick ==
  /\ now < MaxClock
  /\ now' = now + 1
  /\ UNCHANGED <<ledger, pc, req, cnt, stamp, resp, err, countResp, recentResp>>
  /\ UNCHANGED <<adminVars, otherVars>>


(***************************************************************************)
(* GET /count.                                                             *)
(***************************************************************************)
\* the counts n (below 12950) for which the IEEE-754 double n / 100000 * 100
\* is an exact decimal tie rounded downwards by toFixed(1): 12850 / 100000 *
\* 100 is the double 12.8499999999999996...
TiesRoundedDown == {12850}

\* (n / 100000 * 100).toFixed(1) as <<integer part, decimal digit>>
ToFixed1(n) ==
  LET tenths == IF n % 100 < 50 \/ n \in TiesRoundedDown
                  THEN n \div 100 ELSE n \div 100 + 1
  IN <<tenths \div 10, tenths % 10>>

NoCountResp == [status |-> 0, count |-> 0, goal |-> 0, percentage |-> <<0, 0>>]

\* (variant) the base count is not added to the displayed count
CountBody_NoBase(count) ==
  [status |-> 200, count |-> count, goal |-> 100000,
   percentage |-> ToFixed1(count + baseCount)]

\* the body built from the count the store returned
CountBody(count) ==
  [status |-> 200, count |-> count + baseCount, goal |-> 100000,
   percentage |-> ToFixed1(count + baseCount)]

\* (variant) the catch branch reports the failure
CountFallback_Error ==
  [status |-> 500, count |-> 0, goal |-> 0, percentage |-> <<0, 0>>]

\* the body of the catch branch
CountFallback ==
  [status |-> 200, count |-> 12847, goal |-> 100000, percentage |-> <<12, 8>>]

GetCount ==
  /\ countResp' = CountBody(CountDocuments(ledger))
  /\ UNCHANGED <<ledger, now, pc, req, cnt, stamp, resp, err, recentResp>>
  /\ UNCHANGED <<adminVars, otherVars>>

\* Petition.countDocuments() throws
GetCountFail ==
  /\ countResp' = CountFallback
  /\ UNCHANGED <<ledger, now, pc, req, cnt, stamp, resp, err, recentResp>>
  /\ UNCHANGED <<adminVars, otherVars>>

(***************************************************************************)
(* GET /recent.                                                            *)
(***************************************************************************)
\* the order in which the store returns documents of equal createdAt is
\* not fixed by the query: either insertion order or its reverse
TieOrders == {"natural", "reverse"}

\* (variant) .find() without the displayName filter
Find_All(led) == led

\* .find({ displayName: true }): the matching documents in insertion order
RECURSIVE Find(_)
Find(led) ==
  IF led = <<>> THEN <<>>
  ELSE IF Head(led).displayName THEN <<Head(led)>> \o Find(Tail(led))
  ELSE Find(Tail(led))

\* (variant) the sort is ascending: .sort({ createdAt: 1 })
Before_Ascending(d, e, tie) ==
  \/ d.createdAt < e.createdAt
  \/ /\ d.createdAt = e.createdAt
     /\ IF tie = "natural" THEN d._id < e._id ELSE d._id > e._id

\* d comes before e under .sort({ createdAt: -1 })
Before(d, e, tie) ==
  \/ d.createdAt > e.createdAt
  \/ /\ d.createdAt = e.createdAt
     /\ IF tie = "natural" THEN d._id < e._id ELSE d._id > e._id

\* d put at its place in a sorted list
Insert(d, sorted, tie) ==
  LET k == Cardinality({i \in 1..Len(sorted) : Before(sorted[i], d, tie)})
  IN SubSeq(sorted, 1, k) \o <<d>> \o SubSeq(sorted, k + 1, Len(sorted))

\* .sort({ createdAt: -1 })
RECURSIVE SortDesc(_, _)
SortDesc(docs, tie) ==
  IF docs = <<>> THEN <<>>
  ELSE Insert(Head(docs), SortDesc(Tail(docs), tie), tie)

\* .limit(10)
Limit(docs, n) == IF Len(docs) <= n THEN docs ELSE SubSeq(docs, 1, n)

\* (variant) createdAt is sent as the age of the signature at the time of
\* the call
Select_Age(docs) ==
  [i \in 1..Len(docs) |->
     [_id |-> docs[i]._id, firstName |-> docs[i].firstName,
      location |-> docs[i].location, createdAt |-> now - docs[i].createdAt]]

\* (variant) the projection also lets the email through
Select_WithEmail(docs) ==
  [i \in 1..Len(docs) |->
     [_id |-> docs[i]._id, firstName |-> docs[i].firstName, email |-> docs[i].email,
      location |-> docs[i].location, createdAt |-> docs[i].createdAt]]

\* .select('firstName location createdAt'): _id is kept by default
Select(docs) ==
  [i \in 1..Len(docs) |->
     [_id |-> docs[i]._id, firstName |-> docs[i].firstName,
      location |-> docs[i].location, createdAt |-> docs[i].createdAt]]

RecentQuery(led, tie) == Select(Limit(SortDesc(Find(led), tie), 10))

\* the list of the catch branch, createdAt being new Date()
RecentFallback(time) ==
  << [firstName |-> <<"S", "a", "r", "a", "h", " ", "M", ".">>,
      location |-> "Sydney, NSW", createdAt |-> time],
     [firstName |-> <<"J", "a", "m", "e", "s", " ", "T", ".">>,
      location |-> "Melbourne, VIC", createdAt |-> time],
     [firstName |-> <<"E", "m", "m", "a", " ", "L", ".">>,
      location |-> "Brisbane, QLD", createdAt |-> time] >>

NoRecentResp == [status |-> 0, body |-> <<>>]

GetRecent ==
  /\ \E tie \in TieOrders :
       recentResp' = [status |-> 200, body |-> RecentQuery(ledger, tie)]
  /\ UNCHANGED <<ledger, now, pc, req, cnt, stamp, resp, err, countResp>>
  /\ UNCHANGED <<adminVars, otherVars>>

\* Petition.find(...) throws
GetRecentFail ==
  /\ recentResp' = [status |-> 200, body |-> RecentFallback(now)]
  /\ UNCHANGED <<ledger, now, pc, req, cnt, stamp, resp, err, countResp>>
  /\ UNCHANGED <<adminVars, otherVars>>

(***************************************************************************)
(* The auth middleware (api/middleware/auth.js).  A header value is the    *)
(* sequence of its characters, a token standing as one element at its end. *)
(***************************************************************************)
JWT_SECRET == "JWT_SECRET"

\* tokens by what jwt.verify inspects: the form, the key of the signature,
\* the nbf and exp claims (the clock reads 0 when the request is handled)
GoodToken == [form |-> "jwt", key |-> JWT_SECRET, nbf |-> -1, exp |-> 1, userId |-> "admin"]

\* the token strings a client sends, each one element of a header value
Tokens == {"<token>", "<expired token>", "<token not yet active>",
           "<token signed with another key>", "<not a token>"}

\* the content of a token string
Decode(t) ==
  CASE t = "<token>" -> GoodToken
    [] t = "<expired token>" -> [GoodToken EXCEPT !.exp = 0]
    [] t = "<token not yet active>" -> [GoodToken EXCEPT !.nbf = 1]
    [] t = "<token signed with another key>" -> [GoodToken EXCEPT !.key = "another key"]
    [] OTHER -> [GoodToken EXCEPT !.form = "garbage"]

Bearer == <<"B", "e", "a", "r", "e", "r", " ">>

\* req.header('Authorization'): absent, or a string
NoHeader == [present |-> FALSE, value |-> <<>>]

HeaderOf(str) == [present |-> TRUE, value |-> str]

\* the headers clients send: none, an empty one, Bearer and a token, Bearer
\* and no token, other schemes
Headers ==
  {NoHeader, HeaderOf(<<>>), HeaderOf(Bearer),
   HeaderOf(<<"b", "e", "a", "r", "e", "r", " ", "<token>">>),
   HeaderOf(<<"B", "a", "s", "i", "c", " ", "<token>">>)}
    \cup {HeaderOf(Bearer \o <<t>>) : t \in Tokens}

\* String.prototype.startsWith
StartsWith(str, prefix) ==
  Len(str) >= Len(prefix) /\ SubSeq(str, 1, Len(prefix)) = prefix

\* the places where pattern occurs in str
Occurrences(str, pattern) ==
  {i \in 1..(Len(str) - Len(pattern) + 1) :
     SubSeq(str, i, i + Len(pattern) - 1) = pattern}

\* String.prototype.replace(pattern, ''): the first occurrence is removed
RemoveFirst(str, pattern) ==
  IF Occurrences(str, pattern) = {} THEN str
  ELSE LET i == CHOOSE k \in Occurrences(str, pattern) :
                  \A j \in Occurrences(str, pattern) : k <= j
       IN SubSeq(str, 1, i - 1) \o SubSeq(str, i + Len(pattern), Len(str))

\* (variant) the signature is not checked against the secret
JwtVerify_AnyKey(token, secret, clock) ==
  IF Len(token) # 1 \/ token[1] \notin Tokens THEN "JsonWebTokenError"
  ELSE IF Decode(token[1]).form # "jwt" THEN "JsonWebTokenError"
  ELSE IF Decode(token[1]).nbf > clock THEN "NotBeforeError"
  ELSE IF clock >= Decode(token[1]).exp THEN "TokenExpiredError"
  ELSE "verified"

\* jwt.verify(token, secret): the name of the error thrown, or "verified"
JwtVerify(token, secret, clock) ==
  IF Len(token) # 1 \/ token[1] \notin Tokens THEN "JsonWebTokenError"
  ELSE IF Decode(token[1]).form # "jwt" THEN "JsonWebTokenError"
  ELSE IF Decode(token[1]).key # secret THEN "JsonWebTokenError"
  ELSE IF Decode(token[1]).nbf > clock THEN "NotBeforeError"
  ELSE IF clock >= Decode(token[1]).exp THEN "TokenExpiredError"
  ELSE "verified"

\* the response of the middleware, status 0 standing for next()
AuthResult(authHeader) ==
  IF ~authHeader.present \/ authHeader.value = <<>> \/ ~StartsWith(authHeader.value, Bearer)
    THEN [status |-> 401, error |-> "No token, authorization denied"]
  ELSE LET outcome == JwtVerify(RemoveFirst(authHeader.value, Bearer), JWT_SECRET, now) IN
    IF outcome = "verified" THEN [status |-> 0, error |-> ""]
    ELSE IF outcome = "TokenExpiredError" THEN [status |-> 401, error |-> "Token expired"]
    ELSE IF outcome = "JsonWebTokenError" THEN [status |-> 401, error |-> "Invalid token"]
    ELSE [status |-> 500, error |-> "Server error during authentication"]

(***************************************************************************)
(* The administrative routes on stories and contact messages.              *)
(***************************************************************************)
\* number of stories and of contact messages in the collections
MaxDocs == 2

StoryStatuses == {"pending", "published", "rejected"}
ContactStatuses == {"new", "read", "replied", "archived"}

\* the status values sent in request bodies and queries
SentStatuses == {"published", "read", "deleted"}

\* the collections as the public routes filled them: every story pending,
\* every message new, created before the clock reads 0
SeedStories ==
  [i \in 1..MaxDocs |->
     [_id |-> i, status |-> "pending", category |-> "legal-costs",
      createdAt |-> i - MaxDocs - 1, updatedAt |-> i - MaxDocs - 1]]

SeedMessages ==
  [i \in 1..MaxDocs |->
     [_id |-> i, status |-> "new", createdAt |-> i - MaxDocs - 1,
      updatedAt |-> i - MaxDocs - 1]]

\* the body of a request that has none
NoStoryBody ==
  [name |-> <<>>, email |-> <<>>, category |-> "", story |-> 0, status |-> JsUndefined]

NoAdminReq ==
  [route |-> "none", header |-> NoHeader, id |-> 0, status |-> JsUndefined,
   category |-> JsUndefined, body |-> NoStoryBody]

\* a response: its status, its error message, the documents it carries and
\* the total of its pagination
NoAdminResp == [status |-> 0, error |-> "", body |-> <<>>, total |-> 0]

AdminResp(status, error, body) ==
  [status |-> status, error |-> error, body |-> body, total |-> 0]

\* no administrative request was made and the two collections are empty
AdminIdle ==
  /\ stories = <<>>
  /\ messages = <<>>
  /\ apc = "idle"
  /\ areq = NoAdminReq
  /\ aresp = NoAdminResp

\* Model.findByIdAndUpdate(id, update, { new: true }): the collection after
\* the update; updatedAt is set by the handler or by the timestamps option
FindByIdAndUpdate(docs, id, status, time) ==
  [i \in 1..Len(docs) |->
     IF docs[i]._id = id THEN [docs[i] EXCEPT !.status = status, !.updatedAt = time]
     ELSE docs[i]]

\* the document of that id, as a list of one or none
FindById(docs, id) == SelectSeq(docs, LAMBDA d : d._id = id)

\* a client sends PUT /api/stories/:id/status, which goes through the auth
\* middleware first
SubmitStoryStatus ==
  /\ apc \in {"idle", "done"}
  /\ \E h \in Headers, id \in 1..(MaxDocs + 1), st \in SentStatuses :
       areq' = [NoAdminReq EXCEPT !.route = "stories/:id/status", !.header = h,
                                  !.id = id, !.status = st]
  /\ apc' = "auth"
  /\ aresp' = NoAdminResp
  /\ UNCHANGED <<stories, messages>>
  /\ UNCHANGED <<ledger, now, pc, req, cnt, stamp, resp, err, countResp, recentResp>>
  /\ UNCHANGED otherVars

\* the auth middleware answers or calls next()
Auth ==
  /\ apc = "auth"
  /\ LET result == AuthResult(areq.header) IN
       IF result.status = 0
         THEN apc' = "handler" /\ UNCHANGED aresp
         ELSE apc' = "done" /\ aresp' = AdminResp(result.status, result.error, <<>>)
  /\ UNCHANGED <<stories, messages, areq>>
  /\ UNCHANGED <<ledger, now, pc, req, cnt, stamp, resp, err, countResp, recentResp>>
  /\ UNCHANGED otherVars

\* the handler of PUT /api/stories/:id/status
StoryStatus ==
  /\ apc = "handler"
  /\ areq.route = "stories/:id/status"
  /\ IF areq.status \notin {"pending", "published", "rejected"}
       THEN /\ aresp' = AdminResp(400, "Invalid status", <<>>)
            /\ UNCHANGED stories
     ELSE IF FindById(stories, areq.id) = <<>>
       THEN /\ aresp' = AdminResp(404, "Story not found", <<>>)
            /\ UNCHANGED stories
     ELSE /\ stories' = FindByIdAndUpdate(stories, areq.id, areq.status, now)
          /\ aresp' = AdminResp(200, "", FindById(stories', areq.id))
  /\ apc' = "done"
  /\ UNCHANGED <<messages, areq>>
  /\ UNCHANGED <<ledger, now, pc, req, cnt, stamp, resp, err, countResp, recentResp>>
  /\ UNCHANGED otherVars

\* Story.findByIdAndUpdate throws
StoryStatusFail ==
  /\ apc = "handler"
  /\ areq.route = "stories/:id/status"
  /\ areq.status \in {"pending", "published", "rejected"}
  /\ aresp' = AdminResp(500, "Failed to update story", <<>>)
  /\ apc' = "done"
  /\ UNCHANGED <<stories, messages, areq>>
  /\ UNCHANGED <<ledger, now, pc, req, cnt, stamp, resp, err, countResp, recentResp>>
  /\ UNCHANGED otherVars

\* a client sends GET /api/contact with the default page and limit and
\* perhaps a status to filter by
SubmitContactList ==
  /\ apc \in {"idle", "done"}
  /\ \E h \in Headers, st \in SentStatuses \cup {JsUndefined} :
       areq' = [NoAdminReq EXCEPT !.route = "contact", !.header = h, !.status = st]
  /\ apc' = "handler"
  /\ aresp' = NoAdminResp
  /\ UNCHANGED <<stories, messages>>
  /\ UNCHANGED <<ledger, now, pc, req, cnt, stamp, resp, err, countResp, recentResp>>
  /\ UNCHANGED otherVars

\* Contact.find(query): the documents of the status asked for, or all
FindMessages(docs, status) ==
  IF status = JsUndefined THEN docs ELSE SelectSeq(docs, LAMBDA d : d.status = status)

\* .skip(n)
Skip(docs, n) == IF n >= Len(docs) THEN <<>> ELSE SubSeq(docs, n + 1, Len(docs))

\* the handler of GET /api/contact, page = 1 and limit = 20
ContactList ==
  /\ apc = "handler"
  /\ areq.route = "contact"
  /\ aresp' = [status |-> 200, error |-> "",
               body |-> Limit(Skip(SortDesc(FindMessages(messages, areq.status), "natural"),
                                   (1 - 1) * 20), 20),
               total |-> Len(FindMessages(messages, areq.status))]
  /\ apc' = "done"
  /\ UNCHANGED <<stories, messages, areq>>
  /\ UNCHANGED <<ledger, now, pc, req, cnt, stamp, resp, err, countResp, recentResp>>
  /\ UNCHANGED otherVars

\* Contact.find or Contact.countDocuments throws
ContactListFail ==
  /\ apc = "handler"
  /\ areq.route = "contact"
  /\ aresp' = AdminResp(500, "Failed to fetch messages", <<>>)
  /\ apc' = "done"
  /\ UNCHANGED <<stories, messages, areq>>
  /\ UNCHANGED <<ledger, now, pc, req, cnt, stamp, resp, err, countResp, recentResp>>
  /\ UNCHANGED otherVars

\* a client sends PUT /api/contact/:id/status
SubmitContactStatus ==
  /\ apc \in {"idle", "done"}
  /\ \E h \in Headers, id \in 1..(MaxDocs + 1), st \in SentStatuses :
       areq' = [NoAdminReq EXCEPT !.route = "contact/:id/status", !.header = h,
                                  !.id = id, !.status = st]
  /\ apc' = "handler"
  /\ aresp' = NoAdminResp
  /\ UNCHANGED <<stories, messages>>
  /\ UNCHANGED <<ledger, now, pc, req, cnt, stamp, resp, err, countResp, recentResp>>
  /\ UNCHANGED otherVars

\* (variant) the handler does not inspect the status it is sent
ContactStatus_NoCheck ==
  /\ apc = "handler"
  /\ areq.route = "contact/:id/status"
  /\ IF FindById(messages, areq.id) = <<>>
       THEN /\ aresp' = AdminResp(404, "Message not found", <<>>)
            /\ UNCHANGED messages
       ELSE /\ messages' = FindByIdAndUpdate(messages, areq.id, areq.status, now)
            /\ aresp' = AdminResp(200, "", FindById(messages', areq.id))
  /\ apc' = "done"
  /\ UNCHANGED <<stories, areq>>
  /\ UNCHANGED <<ledger, now, pc, req, cnt, stamp, resp, err, countResp, recentResp>>
  /\ UNCHANGED otherVars

\* the handler of PUT /api/contact/:id/status
ContactStatus ==
  /\ apc = "handler"
  /\ areq.route = "contact/:id/status"
  /\ IF areq.status \notin {"new", "read", "replied", "archived"}
       THEN /\ aresp' = AdminResp(400, "Invalid status", <<>>)
            /\ UNCHANGED messages
     ELSE IF FindById(messages, areq.id) = <<>>
       THEN /\ aresp' = AdminResp(404, "Message not found", <<>>)
            /\ UNCHANGED messages
     ELSE /\ messages' = FindByIdAndUpdate(messages, areq.id, areq.status, now)
          /\ aresp' = AdminResp(200, "", FindById(messages', areq.id))
  /\ apc' = "done"
  /\ UNCHANGED <<stories, areq>>
  /\ UNCHANGED <<ledger, now, pc, req, cnt, stamp, resp, err, countResp, recentResp>>
  /\ UNCHANGED otherVars

\* Contact.findByIdAndUpdate throws
ContactStatusFail ==
  /\ apc = "handler"
  /\ areq.route = "contact/:id/status"
  /\ areq.status \in {"new", "read", "replied", "archived"}
  /\ aresp' = AdminResp(500, "Failed to update message", <<>>)
  /\ apc' = "done"
  /\ UNCHANGED <<stories, messages, areq>>
  /\ UNCHANGED <<ledger, now, pc, req, cnt, stamp, resp, err, countResp, recentResp>>
  /\ UNCHANGED otherVars

(***************************************************************************)
(* The public routes on stories: POST /api/stories, GET /api/stories and   *)
(* GET /api/stories/:id.  A story is carried with the fields the routes    *)
(* filter and sort on; its text is carried as its length in characters.    *)
(***************************************************************************)
\* bodies of POST /api/stories: one that passes the validation chain, the
\* same with a field status: 'published', a text of 49 characters, no
\* category
StoryBodies ==
  LET valid == [name |-> <<"A", " ", "B">>, email |-> <<"a", "@", "x", ".", "y">>,
                category |-> "evidence", story |-> 50, status |-> JsUndefined]
  IN {valid, [valid EXCEPT !.status = "published"], [valid EXCEPT !.story = 49],
      [valid EXCEPT !.category = ""]}

\* one error per failing field, in the order of the chain
StoryErrors(b) ==
  (IF Trim(b.name) = <<>> THEN <<"name">> ELSE <<>>)
    \o (IF ~IsEmail(b.email) THEN <<"email">> ELSE <<>>)
    \o (IF b.category = "" THEN <<"category">> ELSE <<>>)
    \o (IF b.story < 50 \/ b.story > 10000 THEN <<"story">> ELSE <<>>)

\* new Story({..., status: 'pending', ...}) as stored by save()
NewStory(b, id, time) ==
  [_id |-> id, status |-> "pending", category |-> b.category,
   createdAt |-> time, updatedAt |-> time]

\* a client sends POST /api/stories
SubmitStoryCreate ==
  /\ apc \in {"idle", "done"}
  /\ \E b \in StoryBodies : areq' = [NoAdminReq EXCEPT !.route = "POST stories", !.body = b]
  /\ apc' = "handler"
  /\ aresp' = NoAdminResp
  /\ UNCHANGED <<stories, messages>>
  /\ UNCHANGED <<ledger, now, pc, req, cnt, stamp, resp, err, countResp, recentResp>>
  /\ UNCHANGED otherVars

\* the handler of POST /api/stories; the response carries the new id
StoryCreate ==
  /\ apc = "handler"
  /\ areq.route = "POST stories"
  /\ IF StoryErrors(areq.body) # <<>>
       THEN /\ aresp' = AdminResp(400, "", <<>>)
            /\ UNCHANGED stories
       ELSE /\ Len(stories) < MaxDocs
            /\ stories' = Append(stories, NewStory(areq.body, Len(stories) + 1, now))
            /\ aresp' = [status |-> 201, error |-> "", body |-> <<>>, total |-> Len(stories')]
  /\ apc' = "done"
  /\ UNCHANGED <<messages, areq>>
  /\ UNCHANGED <<ledger, now, pc, req, cnt, stamp, resp, err, countResp, recentResp>>
  /\ UNCHANGED otherVars

\* newStory.save() throws
StoryCreateFail ==
  /\ apc = "handler"
  /\ areq.route = "POST stories"
  /\ StoryErrors(areq.body) = <<>>
  /\ aresp' = AdminResp(500, "Failed to submit story. Please try again.", <<>>)
  /\ apc' = "done"
  /\ UNCHANGED <<stories, messages, areq>>
  /\ UNCHANGED <<ledger, now, pc, req, cnt, stamp, resp, err, countResp, recentResp>>
  /\ UNCHANGED otherVars

\* a moderator, or a client with no token, sends PUT
\* /api/stories/:id/status with a status of the stories or another one
SubmitStoryModeration ==
  /\ apc \in {"idle", "done"}
  /\ \E h \in {NoHeader, HeaderOf(Bearer \o <<"<token>">>)}, id \in 1..(MaxDocs + 1),
        st \in StoryStatuses \cup {"archived"} :
       areq' = [NoAdminReq EXCEPT !.route = "stories/:id/status", !.header = h,
                                  !.id = id, !.status = st]
  /\ apc' = "auth"
  /\ aresp' = NoAdminResp
  /\ UNCHANGED <<stories, messages>>
  /\ UNCHANGED <<ledger, now, pc, req, cnt, stamp, resp, err, countResp, recentResp>>
  /\ UNCHANGED otherVars

\* a client sends GET /api/stories with the default page and limit and
\* perhaps a category, or GET /api/stories/:id
SubmitStoryRead ==
  /\ apc \in {"idle", "done"}
  /\ \/ \E c \in {JsUndefined, "evidence", "legal-costs"} :
          areq' = [NoAdminReq EXCEPT !.route = "GET stories", !.category = c]
     \/ \E id \in 1..(MaxDocs + 1) :
          areq' = [NoAdminReq EXCEPT !.route = "GET stories/:id", !.id = id]
  /\ apc' = "handler"
  /\ aresp' = NoAdminResp
  /\ UNCHANGED <<stories, messages>>
  /\ UNCHANGED <<ledger, now, pc, req, cnt, stamp, resp, err, countResp, recentResp>>
  /\ UNCHANGED otherVars

\* (variant) the query has no status: Story.find(category ? { category } : {})
FindStories_AnyStatus(docs, category) ==
  SelectSeq(docs, LAMBDA d : category = JsUndefined \/ d.category = category)

\* Story.find(query): query = { status: 'published' } and the category asked
FindStories(docs, category) ==
  SelectSeq(docs, LAMBDA d : /\ d.status = "published"
                             /\ category = JsUndefined \/ d.category = category)

\* .select('displayName location category excerpt createdAt')
SelectStories(docs) ==
  [i \in 1..Len(docs) |->
     [_id |-> docs[i]._id, category |-> docs[i].category, createdAt |-> docs[i].createdAt]]

\* the sample stories of the catch branch
SampleStories(time) ==
  << [category |-> "legal-costs", createdAt |-> time],
     [category |-> "evidence", createdAt |-> time] >>

\* the handler of GET /api/stories, page = 1 and limit = 10
StoryList ==
  /\ apc = "handler"
  /\ areq.route = "GET stories"
  /\ aresp' = [status |-> 200, error |-> "",
               body |-> SelectStories(Limit(Skip(SortDesc(FindStories(stories, areq.category),
                                                          "natural"), (1 - 1) * 10), 10)),
               total |-> Len(FindStories(stories, areq.category))]
  /\ apc' = "done"
  /\ UNCHANGED <<stories, messages, areq>>
  /\ UNCHANGED <<ledger, now, pc, req, cnt, stamp, resp, err, countResp, recentResp>>
  /\ UNCHANGED otherVars

\* Story.find or Story.countDocuments throws
StoryListFail ==
  /\ apc = "handler"
  /\ areq.route = "GET stories"
  /\ aresp' = [status |-> 200, error |-> "", body |-> SampleStories(now), total |-> 2]
  /\ apc' = "done"
  /\ UNCHANGED <<stories, messages, areq>>
  /\ UNCHANGED <<ledger, now, pc, req, cnt, stamp, resp, err, countResp, recentResp>>
  /\ UNCHANGED otherVars

\* the handler of GET /api/stories/:id:
\* Story.findOne({ _id: req.params.id, status: 'published' })
StoryGet ==
  /\ apc = "handler"
  /\ areq.route = "GET stories/:id"
  /\ LET story == FindById(FindStories(stories, JsUndefined), areq.id) IN
       IF story = <<>>
         THEN aresp' = AdminResp(404, "Story not found", <<>>)
         ELSE aresp' = AdminResp(200, "", story)
  /\ apc' = "done"
  /\ UNCHANGED <<stories, messages, areq>>
  /\ UNCHANGED <<ledger, now, pc, req, cnt, stamp, resp, err, countResp, recentResp>>
  /\ UNCHANGED otherVars

\* Story.findOne throws
StoryGetFail ==
  /\ apc = "handler"
  /\ areq.route = "GET stories/:id"
  /\ aresp' = AdminResp(500, "Failed to fetch story", <<>>)
  /\ apc' = "done"
  /\ UNCHANGED <<stories, messages, areq>>
  /\ UNCHANGED <<ledger, now, pc, req, cnt, stamp, resp, err, countResp, recentResp>>
  /\ UNCHANGED otherVars

(***************************************************************************)

(* The rate limiter of server.js (express-rate-limit with its memory       *)
(* store) in front of every route under /api/, here in front of GET        *)
(* /api/petition/count.  Times are in milliseconds.                        *)
(***************************************************************************)
windowMs == 15 * 60 * 1000

max == 100

\* the client addresses (req.ip) that send requests
Clients == {"198.51.100.1", "198.51.100.2"}

\* the hits of one window that the model follows: those of the first
\* address up to MaxOver past the limit, those of the second up to MaxOther
MaxOver == 2

MaxOther == 2

\* the clock advances by half a window, MaxWait times
MaxWait == 3

HitsCap(c) == IF c = "198.51.100.1" THEN max + MaxOver ELSE MaxOther

NoLimiterResp == [client |-> "", status |-> 0, error |-> "", count |-> 0]

\* the response of the limiter's handler: status 429 and the message option
TooManyResp(c) ==
  [client |-> c, status |-> 429,
   error |-> "Too many requests, please try again later.", count |-> 0]

\* the response of GET /count passed on to the client
CountRespTo(c, body) ==
  [client |-> c, status |-> body.status, error |-> "", count |-> body.count]

LimiterIdle ==
  /\ hits = [c \in Clients |-> 0]
  /\ resetTime = [c \in Clients |-> 0]
  /\ lresp = NoLimiterResp
  /\ served = [c \in Clients |-> 0]

\* the window of client c is over at time t: the store starts a new one
Expired(c, t) == resetTime[c] <= t

\* store.increment(key): totalHits of the client after this request
Increment(c, t) == (IF Expired(c, t) THEN 0 ELSE hits[c]) + 1

\* (variant) one request more than max is let through
OverLimit_OneMore(totalHits) == totalHits > max + 1

\* the limiter's test on the hits counted
OverLimit(totalHits) == totalHits > max

\* a request of client c to GET /api/petition/count: the limiter counts it
\* and either answers 429 or calls next(), and then the handler reads the
\* count from the store or takes its fallback
LimitedGetCount(c) ==
  /\ (IF Expired(c, now) THEN 0 ELSE hits[c]) < HitsCap(c)
  /\ LET totalHits == Increment(c, now) IN
       /\ hits' = [hits EXCEPT ![c] = totalHits]
       /\ resetTime' = [resetTime EXCEPT ![c] = IF Expired(c, now) THEN now + windowMs ELSE @]
       /\ IF OverLimit(totalHits)
            THEN /\ lresp' = TooManyResp(c)
                 /\ served' = [served EXCEPT ![c] = IF Expired(c, now) THEN 0 ELSE @]
                 /\ UNCHANGED countResp
            ELSE /\ \E body \in {CountBody(CountDocuments(ledger)), CountFallback} :
                      /\ countResp' = body
                      /\ lresp' = CountRespTo(c, body)
                 /\ served' = [served EXCEPT ![c] = (IF Expired(c, now) THEN 0 ELSE @) + 1]
  /\ UNCHANGED <<ledger, now, pc, req, cnt, stamp, resp, err, recentResp>>
  /\ UNCHANGED <<adminVars, registerVars, quizVars, clientVars>>

\* half a window passes with no request
Wait ==
  /\ now < MaxWait * (windowMs \div 2)
  /\ now' = now + windowMs \div 2
  /\ UNCHANGED <<ledger, pc, req, cnt, stamp, resp, err, countResp, recentResp>>
  /\ UNCHANGED <<adminVars, otherVars>>

(***************************************************************************)

(* POST /register of the class action routes and the                       *)
(* ClassActionRegistration model: one registration is handled at a time,   *)
(* one action per step between two awaits.  experienceDetails is carried   *)
(* as its length in characters.                                            *)
(***************************************************************************)
experienceMaxLength == 2000

RegisterBody ==
  [firstName |-> <<"S">>, lastName |-> <<"M">>,
   email |-> <<"a", "@", "x", ".", "y">>, phone |-> <<"0", "4">>,
   postcode |-> <<"2", "6", "0", "0">>, experienceDetails |-> 0,
   displayName |-> JsUndefined, subscribe |-> JsUndefined, ip |-> "203.0.113.7"]

\* bodies that pass the validation chain: two registrants, every JSON value
\* in displayName, subscribe left out or false
ValidRegisterBodies ==
  {[RegisterBody EXCEPT !.email = e, !.displayName = d, !.subscribe = s] :
     e \in {<<"a", "@", "x", ".", "y">>, <<"B", "@", "x", ".", "y">>},
     d \in JsValues, s \in {JsUndefined, JsFalse}}

\* bodies that fail it: a blank phone, a postcode of three digits
InvalidRegisterBodies ==
  {[RegisterBody EXCEPT !.phone = <<" ">>],
   [RegisterBody EXCEPT !.postcode = <<"2", "6", "0">>]}

RegisterBodies == ValidRegisterBodies \cup InvalidRegisterBodies

NoRegisterBody ==
  [firstName |-> <<>>, lastName |-> <<>>, email |-> <<>>, phone |-> <<>>,
   postcode |-> <<>>, experienceDetails |-> 0,
   displayName |-> JsUndefined, subscribe |-> JsUndefined, ip |-> ""]

NoRegisterResp == [status |-> 0, errors |-> <<>>, error |-> "", message |-> ""]

RegisterValidationResp(errors) ==
  [status |-> 400, errors |-> errors, error |-> "", message |-> ""]

RegisterDuplicateResp ==
  [status |-> 400, errors |-> <<>>,
   error |-> "You have already registered your interest", message |-> ""]

RegisterFailureResp ==
  [status |-> 500, errors |-> <<>>,
   error |-> "Failed to register your interest. Please try again.", message |-> ""]

RegisterCreatedResp ==
  [status |-> 201, errors |-> <<>>, error |-> "",
   message |-> "Thank you for registering your interest. We will keep you updated on developments."]

\* one error per failing field, in the order of the chain
RegisterErrors(b) ==
  (IF Trim(b.firstName) = <<>> THEN <<"firstName">> ELSE <<>>)
    \o (IF Trim(b.lastName) = <<>> THEN <<"lastName">> ELSE <<>>)
    \o (IF ~IsEmail(b.email) THEN <<"email">> ELSE <<>>)
    \o (IF Trim(b.phone) = <<>> THEN <<"phone">> ELSE <<>>)
    \o (IF ~MatchesPostcode(b.postcode) THEN <<"postcode">> ELSE <<>>)

\* the sanitizers of the chain: trim, escape, normalizeEmail
RegisterSanitize(b) ==
  [b EXCEPT !.firstName = Escape(Trim(b.firstName)),
            !.lastName = Escape(Trim(b.lastName)),
            !.email = NormalizeEmail(b.email),
            !.phone = Escape(Trim(b.phone))]

\* a Boolean path of a schema: the value passed to the constructor, or the
\* schema's default when no value is passed
BooleanPath(passed, default) ==
  IF passed = JsUndefined THEN default ELSE passed = JsTrue

\* the value of the expression flag !== false
NotFalse(flag) == IF flag = JsFalse THEN JsFalse ELSE JsTrue

\* new ClassActionRegistration({...}) as built by the handler from the
\* sanitized body, under the schema's setters and defaults
NewRegistration(b) ==
  [firstName |-> Trim(b.firstName), lastName |-> Trim(b.lastName),
   email |-> SchemaEmail(b.email), phone |-> Trim(b.phone),
   postcode |-> b.postcode, experienceDetails |-> b.experienceDetails,
   displayName |-> BooleanPath(NotFalse(b.displayName), FALSE),
   subscribe |-> BooleanPath(NotFalse(b.subscribe), TRUE),
   location |-> postcodeToLocation(b.postcode),
   ipAddress |-> b.ip,
   verified |-> BooleanPath(JsUndefined, FALSE)]

\* mongoose document validation run by save()
RegistrationValid(doc) ==
  /\ doc.firstName # <<>>
  /\ doc.lastName # <<>>
  /\ doc.email # <<>>
  /\ doc.phone # <<>>
  /\ MatchesPostcode(doc.postcode)
  /\ doc.experienceDetails <= experienceMaxLength

\* the handler returns
RegisterFinish(response) ==
  /\ gpc' = "done"
  /\ gresp' = response

\* a client sends a registration when none is in hand
SubmitRegister ==
  /\ gpc \in {"idle", "done"}
  /\ \E b \in RegisterBodies : greq' = b
  /\ gpc' = "received"
  /\ gresp' = NoRegisterResp
  /\ UNCHANGED registrations
  /\ UNCHANGED <<ledger, now, pc, req, cnt, stamp, resp, err, countResp, recentResp>>
  /\ UNCHANGED <<adminVars, limiterVars, quizVars, clientVars>>

\* the validation chain runs, then validationResult is inspected
RegisterValidate ==
  /\ gpc = "received"
  /\ LET errors == RegisterErrors(greq) IN
       IF errors # <<>>
         THEN RegisterFinish(RegisterValidationResp(errors))
         ELSE gpc' = "findOne" /\ UNCHANGED gresp
  /\ greq' = RegisterSanitize(greq)
  /\ UNCHANGED registrations
  /\ UNCHANGED <<ledger, now, pc, req, cnt, stamp, resp, err, countResp, recentResp>>
  /\ UNCHANGED <<adminVars, limiterVars, quizVars, clientVars>>

\* await ClassActionRegistration.findOne({ email }) returns
RegisterFindOne ==
  /\ gpc = "findOne"
  /\ IF FindOne(registrations, greq.email) # 0
       THEN RegisterFinish(RegisterDuplicateResp)
       ELSE gpc' = "save" /\ UNCHANGED gresp
  /\ UNCHANGED <<registrations, greq>>
  /\ UNCHANGED <<ledger, now, pc, req, cnt, stamp, resp, err, countResp, recentResp>>
  /\ UNCHANGED <<adminVars, limiterVars, quizVars, clientVars>>

\* await ClassActionRegistration.findOne throws
RegisterFindOneFail ==
  /\ gpc = "findOne"
  /\ RegisterFinish(RegisterFailureResp)
  /\ UNCHANGED <<registrations, greq>>
  /\ UNCHANGED <<ledger, now, pc, req, cnt, stamp, resp, err, countResp, recentResp>>
  /\ UNCHANGED <<adminVars, limiterVars, quizVars, clientVars>>

\* await registration.save() returns or throws on the document
RegisterSave ==
  /\ gpc = "save"
  /\ LET doc == NewRegistration(greq) IN
       IF ~RegistrationValid(doc) \/ ~UniqueIndexOk(registrations, doc.email)
         THEN /\ RegisterFinish(RegisterFailureResp)
              /\ UNCHANGED registrations
         ELSE /\ registrations' = Append(registrations,
                                         doc @@
                                         [_id |-> Len(registrations) + 1, createdAt |-> now])
              /\ RegisterFinish(RegisterCreatedResp)
  /\ UNCHANGED greq
  /\ UNCHANGED <<ledger, now, pc, req, cnt, stamp, resp, err, countResp, recentResp>>
  /\ UNCHANGED <<adminVars, limiterVars, quizVars, clientVars>>

\* await registration.save() throws: the store is unreachable
RegisterSaveFail ==
  /\ gpc = "save"
  /\ RegisterFinish(RegisterFailureResp)
  /\ UNCHANGED <<registrations, greq>>
  /\ UNCHANGED <<ledger, now, pc, req, cnt, stamp, resp, err, countResp, recentResp>>
  /\ UNCHANGED <<adminVars, limiterVars, quizVars, clientVars>>

(***************************************************************************)
(* POST /submit of the quiz routes.  A JSON value sent as an answer is     *)
(* written as its JSON text: 2 is the number, '2' the string, [2] the      *)
(* array; an email of <<>> is an absent or empty one (both are falsy).     *)
(***************************************************************************)
\* longest answers array sent, one more than there are questions
MaxAnswers == 6

\* (variant) a sixth question follows the five
defaultQuestions_SixQuestions ==
  << <<0, 0, 1, 0>>, <<0, 0, 1, 0>>, <<0, 1, 0, 0>>, <<0, 0, 1, 0>>, <<0, 1, 0, 0>>,
     <<0, 0, 1, 0>> >>

\* the options of the five questions by their value: 1 marks the correct one
defaultQuestions ==
  << <<0, 0, 1, 0>>, <<0, 0, 1, 0>>, <<0, 1, 0, 0>>, <<0, 0, 1, 0>>, <<0, 1, 0, 0>> >>

\* the property keys of the elements of an array of four
IndexKeys == <<"0", "1", "2", "3">>

\* the property key that options[answer] looks up: a number is its decimal
\* text, a string is itself, an array of one is the key of its element
PropertyKey(answer) ==
  CASE answer = "'2'" -> "2"
    [] answer = "[2]" -> "2"
    [] answer = "'02'" -> "02"
    [] answer = "'length'" -> "length"
    [] OTHER -> answer

\* question.options[answer] is truthy: one of the options, or the length of
\* the array
HasOption(question, answer) ==
  \/ \E i \in 1..Len(question) : PropertyKey(answer) = IndexKeys[i]
  \/ PropertyKey(answer) = "length"

\* question.options[answer].value === 1
IsCorrect(question, answer) ==
  \E i \in 1..Len(question) : PropertyKey(answer) = IndexKeys[i] /\ question[i] = 1

\* answers.map(...).filter(Boolean) with its count of score, from position
\* index on
RECURSIVE Mark(_, _, _, _)
Mark(answers, index, score, results) ==
  IF index > Len(answers) THEN [score |-> score, results |-> results]
  ELSE IF index <= Len(defaultQuestions)
            /\ HasOption(defaultQuestions[index], answers[index])
       THEN LET isCorrect == IsCorrect(defaultQuestions[index], answers[index])
            IN  Mark(answers, index + 1, IF isCorrect THEN score + 1 ELSE score,
                     Append(results, [selected |-> answers[index], correct |-> isCorrect]))
       ELSE Mark(answers, index + 1, score, results)

\* Math.round(num / den) of two naturals
MathRound(num, den) == (2 * num + den) \div (2 * den)

getResultMessage(percentage) ==
  IF percentage >= 80 THEN "Excellent!"
  ELSE IF percentage >= 60 THEN "Good effort!"
  ELSE IF percentage >= 40 THEN "There's more to learn!"
  ELSE "Time to discover the truth!"

\* bodies of POST /submit: answers that is no array, every array of up to
\* MaxAnswers entries over a correct index of questions 1, 2 and 4, the
\* correct index of questions 3 and 5, the first as a string and an index no
\* question has, and arrays of one other value; each with and without email
QuizBodies ==
  LET arrays == UNION {[1..n -> {"2", "1", "'2'", "9"}] : n \in 0..MaxAnswers}
                  \cup {<<v>> : v \in {"[2]", "'02'", "'length'", "null", "-1", "2.5"}}
      emails == {<<>>, <<"A", "@", "x", ".", "y">>}
  IN  {[isArray |-> TRUE, answers |-> a, email |-> e] : a \in arrays, e \in emails}
        \cup {[isArray |-> FALSE, answers |-> <<>>, email |-> e] : e \in emails}

NoQuizBody == [isArray |-> FALSE, answers |-> <<>>, email |-> <<>>]

QuizResp(status, marked, percentage, error) ==
  [status |-> status, score |-> marked.score, total |-> Len(defaultQuestions),
   percentage |-> percentage, results |-> marked.results,
   message |-> getResultMessage(percentage), error |-> error]

NoQuizResp ==
  [status |-> 0, score |-> 0, total |-> 0, percentage |-> 0, results |-> <<>>,
   message |-> "", error |-> ""]

QuizErrorResp(status, error) == [NoQuizResp EXCEPT !.status = status, !.error = error]

\* no quiz result is stored and no submission is in hand
QuizIdle ==
  /\ quizResults = <<>>
  /\ qpc = "idle"
  /\ qreq = NoQuizBody
  /\ qresp = NoQuizResp

\* the QuizResult document of a submission
NewQuizResult(email, marked, percentage) ==
  [email |-> SchemaEmail(email), score |-> marked.score, percentage |-> percentage,
   answers |-> marked.results]

\* the Number path selected takes the answer: numbers and numeric strings
CastsToNumber(answer) == answer \in {"2", "1", "9", "-1", "2.5", "'2'", "'02'"}

\* the handler up to its await or, with no email, to its end
QuizSubmit ==
  /\ qpc = "received"
  /\ IF ~qreq.isArray
       THEN /\ qpc' = "done"
            /\ qresp' = QuizErrorResp(400, "errors")
       ELSE LET marked == Mark(qreq.answers, 1, 0, <<>>)
                percentage == MathRound(marked.score * 100, Len(defaultQuestions))
            IN  IF qreq.email # <<>>
                  THEN /\ qpc' = "save"
                       /\ qresp' = NoQuizResp
                  ELSE /\ qpc' = "done"
                       /\ qresp' = QuizResp(200, marked, percentage, "")
  /\ UNCHANGED <<quizResults, qreq>>
  /\ UNCHANGED <<ledger, now, pc, req, cnt, stamp, resp, err, countResp, recentResp>>
  /\ UNCHANGED <<adminVars, registerVars, limiterVars, clientVars>>

\* await quizResult.save() returns, then the response is sent
QuizSubmitSave ==
  /\ qpc = "save"
  /\ LET marked == Mark(qreq.answers, 1, 0, <<>>)
         percentage == MathRound(marked.score * 100, Len(defaultQuestions))
     IN  /\ \A i \in 1..Len(marked.results) : CastsToNumber(marked.results[i].selected)
         /\ quizResults' = Append(quizResults, NewQuizResult(qreq.email, marked, percentage))
         /\ qresp' = QuizResp(200, marked, percentage, "")
  /\ qpc' = "done"
  /\ UNCHANGED qreq
  /\ UNCHANGED <<ledger, now, pc, req, cnt, stamp, resp, err, countResp, recentResp>>
  /\ UNCHANGED <<adminVars, registerVars, limiterVars, clientVars>>

\* await quizResult.save() throws: a selected answer is no number, or the
\* store is unreachable
QuizSubmitSaveFail ==
  /\ qpc = "save"
  /\ qpc' = "done"
  /\ qresp' = QuizErrorResp(500, "Failed to process quiz results")
  /\ UNCHANGED <<quizResults, qreq>>
  /\ UNCHANGED <<ledger, now, pc, req, cnt, stamp, resp, err, countResp, recentResp>>
  /\ UNCHANGED <<adminVars, registerVars, limiterVars, clientVars>>

(***************************************************************************)
(* The Quiz of the page (js/main.js) over its default questions.  An       *)
(* answer not recorded yet is written -1, as is no selected option.        *)
(***************************************************************************)
\* largest score the model lets this.score reach
MaxScore == 7

\* the options of the default questions by their value
questions ==
  << <<0, 0, 1, 0>>, <<0, 0, 1, 0>>, <<0, 1, 0, 0>>, <<0, 0, 1, 0>>, <<0, 1, 0, 0>> >>

\* the options (data-index) that the visitor clicks
ClickedOptions == {1, 2, 3}

QuestionView == [view |-> "question", percentage |-> 0]

\* what showResults puts into the container
showResults(total) ==
  [view |-> "results", percentage |-> MathRound(total * 100, Len(questions))]

\* render() of the question or, past the last one, of the results; it
\* replaces the content of the container, so that no option is selected
render(current, total) ==
  /\ container' = IF current >= Len(questions) THEN showResults(total) ELSE QuestionView
  /\ selected' = -1

\* the state after the constructor, loadQuestions falling through to the
\* default questions, and the first render()
QuizConstructed ==
  /\ currentQuestion = 0
  /\ thisAnswers = [i \in 1..Len(questions) |-> -1]
  /\ thisScore = 0
  /\ container = QuestionView
  /\ selected = -1

\* a click on an option of the question shown
SelectOption ==
  /\ container.view = "question"
  /\ \E index \in ClickedOptions : selected' = index
  /\ UNCHANGED <<currentQuestion, thisAnswers, thisScore, container>>
  /\ UNCHANGED <<ledger, now, pc, req, cnt, stamp, resp, err, countResp, recentResp>>
  /\ UNCHANGED <<adminVars, registerVars, limiterVars, quizVars>>

\* a click on Next, which is enabled once an option is selected
nextQuestion ==
  /\ container.view = "question"
  /\ selected # -1
  /\ LET question == questions[currentQuestion + 1]
         total == thisScore + question[selected + 1]
     IN  /\ total <= MaxScore
         /\ thisAnswers' = [thisAnswers EXCEPT ![currentQuestion + 1] = selected]
         /\ thisScore' = total
         /\ currentQuestion' = currentQuestion + 1
         /\ render(currentQuestion + 1, total)
  /\ UNCHANGED <<ledger, now, pc, req, cnt, stamp, resp, err, countResp, recentResp>>
  /\ UNCHANGED <<adminVars, registerVars, limiterVars, quizVars>>

\* a click on Previous, which is shown from the second question on
prevQuestion ==
  /\ container.view = "question"
  /\ currentQuestion > 0
  /\ currentQuestion' = currentQuestion - 1
  /\ render(currentQuestion - 1, thisScore)
  /\ UNCHANGED <<thisAnswers, thisScore>>
  /\ UNCHANGED <<ledger, now, pc, req, cnt, stamp, resp, err, countResp, recentResp>>
  /\ UNCHANGED <<adminVars, registerVars, limiterVars, quizVars>>

\* a click on 'Take Quiz Again' of the results
Restart ==
  /\ container.view = "results"
  /\ currentQuestion' = 0
  /\ thisAnswers' = [i \in 1..Len(questions) |-> -1]
  /\ thisScore' = 0
  /\ render(0, 0)
  /\ UNCHANGED <<ledger, now, pc, req, cnt, stamp, resp, err, countResp, recentResp>>
  /\ UNCHANGED <<adminVars, registerVars, limiterVars, quizVars>>

\* no registration is stored and none is in hand; the limiter has seen no
\* request; no quiz submission is in hand; the page shows the first question
OtherIdle ==
  /\ registrations = <<>>
  /\ gpc = "idle"
  /\ greq = NoRegisterBody
  /\ gresp = NoRegisterResp
  /\ LimiterIdle
  /\ QuizIdle
  /\ QuizConstructed

(***************************************************************************)
(* Specification of the running server: an empty collection, MaxReq sign   *)
(* requests and any number of GET /count requests, interleaved at the      *)
(* awaits.  GET /recent, one query that writes nothing, is specified over  *)
(* populated collections in SpecRead.                                      *)
(***************************************************************************)
Init ==
  /\ ledger = <<>>
  /\ now = 0
  /\ pc = [r \in Slots |-> "idle"]
  /\ req = [r \in Slots |-> NoBody]
  /\ cnt = [r \in Slots |-> 0]
  /\ stamp = [r \in Slots |-> 0]
  /\ resp = [r \in Slots |-> NoResp]
  /\ err = [r \in Slots |-> "none"]
  /\ countResp = NoCountResp
  /\ recentResp = NoRecentResp
  /\ AdminIdle
  /\ OtherIdle

Next ==
  \/ \E r \in Slots : Submit(r)
  \/ \E r \in Slots : SignValidate(r)
  \/ \E r \in Slots : SignFindOne(r)
  \/ \E r \in Slots : SignFindOneFail(r)
  \/ \E r \in Slots : SignCount(r)
  \/ \E r \in Slots : SignCountFail(r)
  \/ \E r \in Slots : SignSave(r)
  \/ \E r \in Slots : SignSaveFail(r)
  \/ Tick
  \/ GetCount
  \/ GetCountFail

Spec == Init /\ [][Next]_vars


(***************************************************************************)
(* Specification of the read paths over a populated collection: the ledger *)
(* holds up to MaxLedger signatures of distinct signers; none, one or      *)
(* every second of them asked not to be displayed, and none, one or all    *)
(* but the first were stamped in the same millisecond as the signature     *)
(* before them (two save() calls with no clock tick between them).         *)
(***************************************************************************)
SeedLocals == <<"a", "b", "c", "d", "e", "f", "g", "h", "i", "j", "k", "l", "m", "n", "o">>

\* createdAt of the i-th of n seeded signatures, all in the past of now = 0
SeedTime(i, n, ties) ==
  (i - Cardinality({t \in ties : t <= i})) - n

SeedRecord(i, n, hidden, ties) ==
  Stored(NewPetition(Sanitize([BaseBody EXCEPT
                                 !.email = <<SeedLocals[i], "@", "x", ".", "y">>,
                                 !.displayName = IF i \in hidden THEN JsFalse ELSE JsUndefined])),
         i, SeedTime(i, n, ties))

SeedLedger(n, hidden, ties) == [i \in 1..n |-> SeedRecord(i, n, hidden, ties)]

SeedHidden(n) == {{}} \cup {{i} : i \in 1..n} \cup {{i \in 1..n : i % 2 = 0}}

SeedTies(n) == {{}} \cup {{t} : t \in 2..n} \cup {2..n}

SeedLedgers ==
  UNION {{SeedLedger(n, hidden, ties) : hidden \in SeedHidden(n), ties \in SeedTies(n)} :
         n \in 0..MaxLedger}

InitRead ==
  /\ ledger \in SeedLedgers
  /\ now = 0
  /\ pc = [r \in Slots |-> "idle"]
  /\ req = [r \in Slots |-> NoBody]
  /\ cnt = [r \in Slots |-> 0]
  /\ stamp = [r \in Slots |-> 0]
  /\ resp = [r \in Slots |-> NoResp]
  /\ err = [r \in Slots |-> "none"]
  /\ countResp = NoCountResp
  /\ recentResp = NoRecentResp
  /\ AdminIdle
  /\ OtherIdle

NextRead ==
  \/ Tick
  \/ GetCount
  \/ GetCountFail
  \/ GetRecent
  \/ GetRecentFail

SpecRead == InitRead /\ [][NextRead]_vars

(***************************************************************************)
(* Specification of one signature per four-digit postcode: the request of  *)
(* slot 1 carries any postcode 0000..9999 and runs through POST /sign.     *)
(***************************************************************************)
FourDigitPostcodes == [1..4 -> Digits]

InitPostcode ==
  /\ ledger = <<>>
  /\ now = 0
  /\ pc = [r \in Slots |-> IF r = 1 THEN "received" ELSE "idle"]
  /\ \E p \in FourDigitPostcodes :
       req = [r \in Slots |-> IF r = 1 THEN [BaseBody EXCEPT !.postcode = p] ELSE NoBody]
  /\ cnt = [r \in Slots |-> 0]
  /\ stamp = [r \in Slots |-> 0]
  /\ resp = [r \in Slots |-> NoResp]
  /\ err = [r \in Slots |-> "none"]
  /\ countResp = NoCountResp
  /\ recentResp = NoRecentResp
  /\ AdminIdle
  /\ OtherIdle

NextPostcode ==
  \/ \E r \in Slots : SignValidate(r)
  \/ \E r \in Slots : SignFindOne(r)
  \/ \E r \in Slots : SignFindOneFail(r)
  \/ \E r \in Slots : SignCount(r)
  \/ \E r \in Slots : SignCountFail(r)
  \/ \E r \in Slots : SignSave(r)
  \/ \E r \in Slots : SignSaveFail(r)

SpecPostcode == InitPostcode /\ [][NextPostcode]_vars

(***************************************************************************)
(* Specification of one signature per value of the optional flags: the     *)
(* request of slot 1 carries any JSON value in displayName and in          *)
(* subscribe, runs through POST /sign, and GET /recent is called.          *)
(***************************************************************************)
InitFlags ==
  /\ ledger = <<>>
  /\ now = 0
  /\ pc = [r \in Slots |-> IF r = 1 THEN "received" ELSE "idle"]
  /\ \E d \in JsValues, s \in JsValues :
       req = [r \in Slots |-> IF r = 1 THEN [BaseBody EXCEPT !.displayName = d, !.subscribe = s]
                                       ELSE NoBody]
  /\ cnt = [r \in Slots |-> 0]
  /\ stamp = [r \in Slots |-> 0]
  /\ resp = [r \in Slots |-> NoResp]
  /\ err = [r \in Slots |-> "none"]
  /\ countResp = NoCountResp
  /\ recentResp = NoRecentResp
  /\ AdminIdle
  /\ OtherIdle

NextFlags ==
  \/ \E r \in Slots : SignValidate(r)
  \/ \E r \in Slots : SignFindOne(r)
  \/ \E r \in Slots : SignFindOneFail(r)
  \/ \E r \in Slots : SignCount(r)
  \/ \E r \in Slots : SignCountFail(r)
  \/ \E r \in Slots : SignSave(r)
  \/ \E r \in Slots : SignSaveFail(r)
  \/ GetRecent
  \/ GetRecentFail

SpecFlags == InitFlags /\ [][NextFlags]_vars

(***************************************************************************)

(* Specification of signers who come one after the other: a sign request   *)
(* is sent only when no other sign request is in flight.  GET /count is    *)
(* called at any time.                                                     *)
(***************************************************************************)
SubmitAlone(r) ==
  /\ \A r2 \in Slots : r2 # r => pc[r2] \in {"idle", "done"}
  /\ Submit(r)

NextAlone ==
  \/ \E r \in Slots : SubmitAlone(r)
  \/ \E r \in Slots : SignValidate(r)
  \/ \E r \in Slots : SignFindOne(r)
  \/ \E r \in Slots : SignFindOneFail(r)
  \/ \E r \in Slots : SignCount(r)
  \/ \E r \in Slots : SignCountFail(r)
  \/ \E r \in Slots : SignSave(r)
  \/ \E r \in Slots : SignSaveFail(r)
  \/ Tick
  \/ GetCount
  \/ GetCountFail

SpecAlone == Init /\ [][NextAlone]_vars

(***************************************************************************)
(* Specification of the three petition routes together: the sign requests  *)
(* of Spec interleaved with GET /count and GET /recent, all within one     *)
(* millisecond of the clock.                                               *)
(***************************************************************************)
NextRoutes ==
  \/ \E r \in Slots : Submit(r)
  \/ \E r \in Slots : SignValidate(r)
  \/ \E r \in Slots : SignFindOne(r)
  \/ \E r \in Slots : SignFindOneFail(r)
  \/ \E r \in Slots : SignCount(r)
  \/ \E r \in Slots : SignCountFail(r)
  \/ \E r \in Slots : SignSave(r)
  \/ \E r \in Slots : SignSaveFail(r)
  \/ GetCount
  \/ GetCountFail
  \/ GetRecent
  \/ GetRecentFail

SpecRoutes == Init /\ [][NextRoutes]_vars


(***************************************************************************)
(* Specification of the administrative routes: the collections hold        *)
(* MaxDocs stories and MaxDocs contact messages, and clients send one      *)
(* request after the other to PUT /api/stories/:id/status, GET             *)
(* /api/contact and PUT /api/contact/:id/status.                           *)
(***************************************************************************)
InitAdmin ==
  /\ ledger = <<>>
  /\ now = 0
  /\ pc = [r \in Slots |-> "idle"]
  /\ req = [r \in Slots |-> NoBody]
  /\ cnt = [r \in Slots |-> 0]
  /\ stamp = [r \in Slots |-> 0]
  /\ resp = [r \in Slots |-> NoResp]
  /\ err = [r \in Slots |-> "none"]
  /\ countResp = NoCountResp
  /\ recentResp = NoRecentResp
  /\ stories = SeedStories
  /\ messages = SeedMessages
  /\ apc = "idle"
  /\ areq = NoAdminReq
  /\ aresp = NoAdminResp
  /\ OtherIdle

NextAdmin ==
  \/ SubmitStoryStatus
  \/ Auth
  \/ StoryStatus
  \/ StoryStatusFail
  \/ SubmitContactList
  \/ ContactList
  \/ ContactListFail
  \/ SubmitContactStatus
  \/ ContactStatus
  \/ ContactStatusFail

SpecAdmin == InitAdmin /\ [][NextAdmin]_vars

(***************************************************************************)
(* Specification of the class action registrations: clients send one       *)
(* registration after the other to POST /register, the collection being    *)
(* empty at the start.                                                     *)
(***************************************************************************)
NextRegister ==
  \/ SubmitRegister
  \/ RegisterValidate
  \/ RegisterFindOne
  \/ RegisterFindOneFail
  \/ RegisterSave
  \/ RegisterSaveFail

SpecRegister == Init /\ [][NextRegister]_vars

(***************************************************************************)
(* Specification of the stories: the collection is empty at the start,     *)
(* clients submit up to MaxDocs stories, read the list and single stories, *)
(* and send status updates, one request after the other.                   *)
(***************************************************************************)
NextStories ==
  \/ SubmitStoryCreate
  \/ StoryCreate
  \/ StoryCreateFail
  \/ SubmitStoryRead
  \/ StoryList
  \/ StoryListFail
  \/ StoryGet
  \/ StoryGetFail
  \/ SubmitStoryModeration
  \/ Auth
  \/ StoryStatus
  \/ StoryStatusFail

SpecStories == Init /\ [][NextStories]_vars

(***************************************************************************)
(* Specification of the rate limiter: two client addresses send requests   *)
(* to GET /api/petition/count while time passes.                           *)
(***************************************************************************)
NextLimiter ==
  \/ \E c \in Clients : LimitedGetCount(c)
  \/ Wait

SpecLimiter == Init /\ [][NextLimiter]_vars

(***************************************************************************)
(* Specification of the quiz submissions: one body of QuizBodies has been  *)
(* received and runs through POST /submit.                                 *)
(***************************************************************************)
InitQuiz ==
  /\ ledger = <<>>
  /\ now = 0
  /\ pc = [r \in Slots |-> "idle"]
  /\ req = [r \in Slots |-> NoBody]
  /\ cnt = [r \in Slots |-> 0]
  /\ stamp = [r \in Slots |-> 0]
  /\ resp = [r \in Slots |-> NoResp]
  /\ err = [r \in Slots |-> "none"]
  /\ countResp = NoCountResp
  /\ recentResp = NoRecentResp
  /\ AdminIdle
  /\ registrations = <<>>
  /\ gpc = "idle"
  /\ greq = NoRegisterBody
  /\ gresp = NoRegisterResp
  /\ LimiterIdle
  /\ quizResults = <<>>
  /\ qpc = "received"
  /\ qreq \in QuizBodies
  /\ qresp = NoQuizResp
  /\ QuizConstructed

NextQuiz ==
  \/ QuizSubmit
  \/ QuizSubmitSave
  \/ QuizSubmitSaveFail

SpecQuiz == InitQuiz /\ [][NextQuiz]_vars

(***************************************************************************)
(* Specification of the page: the visitor clicks options, Next, Previous   *)
(* and 'Take Quiz Again' in any order.                                     *)
(***************************************************************************)
NextPage ==
  \/ SelectOption
  \/ nextQuestion
  \/ prevQuestion
  \/ Restart

SpecPage == Init /\ [][NextPage]_vars

(***************************************************************************)
(* Properties of the petition ledger.                                      *)
(***************************************************************************)
\* the request of slot r has been received and passed the validation chain
Validated(r) == pc[r] \in {"findOne", "count", "save", "done"} /\ resp[r].errors = <<>>

\* the records of the ledger that carry the normalized form of an email
RecordsOf(led, email) ==
  {i \in 1..Len(led) : NormalizeEmail(led[i].email) = NormalizeEmail(email)}

NoDuplicateEmails ==
  \A i, j \in 1..Len(ledger) :
    i # j => NormalizeEmail(ledger[i].email) # NormalizeEmail(ledger[j].email)

\* C1: in every reachable state no two stored signature records have the
\* same normalized email, and no step overwrites or removes a stored record
\* (every record of the ledger is still there, unchanged, after the step).
C1_EmailUnique ==
  /\ []NoDuplicateEmails
  /\ [][\A i \in 1..Len(ledger) : i <= Len(ledger') /\ ledger'[i] = ledger[i]]_vars

\* two requests with the same normalized email both passed the duplicate
\* lookup; one insert landed, the other was refused by the unique index
C1_Witness ==
  \E r1, r2 \in Slots :
    /\ r1 # r2
    /\ resp[r1].status = 201
    /\ err[r2] = "E11000"
    /\ NormalizeEmail(req[r1].email) = NormalizeEmail(req[r2].email)
    /\ Cardinality(RecordsOf(ledger, req[r1].email)) = 1

\* C2: the request whose insert the store rejects because a concurrent
\* request with the same normalized email inserted first receives the
\* duplicate rejection (400, 'You have already signed this petition'), not
\* the generic persistence failure.
C2_LoserGetsDuplicateRejection ==
  \A r \in Slots :
    (pc[r] = "done" /\ err[r] = "E11000") =>
      (resp[r].status = 400 /\ resp[r].error = "You have already signed this petition")

\* C3: of the requests that carry the same normalized email at most one is
\* answered 201, and the ledger holds at most one record for that email.
C3_AtMostOneSucceeds ==
  \A r1, r2 \in Slots :
    (/\ r1 # r2
     /\ Validated(r1)
     /\ Validated(r2)
     /\ NormalizeEmail(req[r1].email) = NormalizeEmail(req[r2].email))
    => /\ ~(resp[r1].status = 201 /\ resp[r2].status = 201)
       /\ Cardinality(RecordsOf(ledger, req[r1].email)) <= 1

\* two same-email requests were in flight together and both have finished,
\* exactly one of them with 201
C3_Witness ==
  \E r1, r2 \in Slots :
    /\ r1 # r2
    /\ pc[r1] = "done" /\ pc[r2] = "done"
    /\ NormalizeEmail(req[r1].email) = NormalizeEmail(req[r2].email)
    /\ req[r1].email # <<"a", "x">>
    /\ resp[r1].status = 201
    /\ resp[r2].status \in {400, 500}
    /\ Len(ledger) = 1

PassesValidation(r) == pc[r] # "idle" /\ ValidationErrors(req[r]) = <<>>

\* no other request that was submitted carries the normalized email of r
OnlySigner(r) ==
  \A r2 \in Slots :
    (r2 # r /\ pc[r2] # "idle") =>
      NormalizeEmail(req[r2].email) # NormalizeEmail(req[r].email)

\* the number of requests answered 201 so far
Successes == Cardinality({r \in Slots : resp[r].status = 201})

\* C5 as stated: every valid request whose normalized email no other
\* request carries (the ledger starts empty) ends with 201 and with exactly
\* one record of its own in the ledger.
C5_DistinctAllSucceed ==
  \A r \in Slots :
    (pc[r] = "done" /\ PassesValidation(r) /\ OnlySigner(r)) =>
      /\ resp[r].status = 201
      /\ Cardinality(RecordsOf(ledger, req[r].email)) = 1

\* C5 (amended): every valid request whose normalized email no other
\* request carries, and none of whose store calls failed because the store
\* was unreachable or because save() rejected the document, ends with 201
\* and with exactly one record of its own in the ledger; the ledger holds
\* exactly one record per request answered 201.
C5_DistinctSucceedUnlessStoreFails ==
  /\ \A r \in Slots :
       (/\ pc[r] = "done"
        /\ PassesValidation(r)
        /\ OnlySigner(r)
        /\ err[r] \notin {"unavailable", "ValidationError"}) =>
         /\ resp[r].status = 201
         /\ Cardinality(RecordsOf(ledger, req[r].email)) = 1
  /\ Len(ledger) = Successes

\* two requests with different emails ran interleaved (both read the count
\* before either insert) and both succeeded
C5_Witness ==
  \E r1, r2 \in Slots :
    /\ r1 # r2
    /\ resp[r1].status = 201 /\ resp[r2].status = 201
    /\ resp[r1].signatureNumber = resp[r2].signatureNumber
    /\ NormalizeEmail(req[r1].email) # NormalizeEmail(req[r2].email)
    /\ Len(ledger) = 2

\* a string that is empty after trimming consists of blanks only
Blank(str) == \A i \in 1..Len(str) : str[i] = " "

\* the validated fields of a body that are not acceptable
FailingFields(b) ==
  {f \in {"firstName", "lastName", "email", "postcode"} :
     \/ f = "firstName" /\ Blank(b.firstName)
     \/ f = "lastName" /\ Blank(b.lastName)
     \/ f = "email" /\ ~IsEmail(b.email)
     \/ f = "postcode" /\ ~(Len(b.postcode) = 4 /\ \A i \in 1..Len(b.postcode) : b.postcode[i] \in Digits)}

\* C6: a request that fails field validation is answered 400 with one
\* error entry per failing field, its handler ends there, and the ledger is
\* unchanged.
C6_ValidationRejected ==
  [][\A r \in Slots :
       (pc[r] = "received" /\ pc'[r] # "received" /\ FailingFields(req[r]) # {})
       => /\ pc'[r] = "done"
          /\ resp'[r].status = 400
          /\ {resp'[r].errors[i] : i \in 1..Len(resp'[r].errors)} = FailingFields(req[r])
          /\ Len(resp'[r].errors) = Cardinality(FailingFields(req[r]))
          /\ ledger' = ledger]_vars

\* a request with all four fields invalid was answered, another one with
\* only the postcode invalid too
C6_Witness ==
  \E r1, r2 \in Slots :
    /\ resp[r1].status = 400
    /\ resp[r1].errors = <<"firstName", "lastName", "email", "postcode">>
    /\ resp[r2].status = 400
    /\ resp[r2].errors = <<"postcode">>

\* the number written by four decimal digits
PostcodeNumber(p) ==
  1000 * DigitVal(p[1]) + 100 * DigitVal(p[2]) + 10 * DigitVal(p[3]) + DigitVal(p[4])

\* the range table of the specification
TableLocation(n) ==
  IF (2000 <= n /\ n <= 2599) \/ (2619 <= n /\ n <= 2898) \/ (2921 <= n /\ n <= 2999)
    THEN "NSW"
  ELSE IF (2600 <= n /\ n <= 2618) \/ (2899 <= n /\ n <= 2920) THEN "ACT"
  ELSE IF (3000 <= n /\ n <= 3999) \/ (8000 <= n /\ n <= 8999) THEN "VIC"
  ELSE IF (4000 <= n /\ n <= 4999) \/ (9000 <= n /\ n <= 9999) THEN "QLD"
  ELSE IF 5000 <= n /\ n <= 5999 THEN "SA"
  ELSE IF 6000 <= n /\ n <= 6999 THEN "WA"
  ELSE IF 7000 <= n /\ n <= 7999 THEN "TAS"
  ELSE IF 800 <= n /\ n <= 899 THEN "NT"
  ELSE "Australia"

\* the range table with Western Australia as 6000-6797 and 6800-6999
TableLocationWA(n) ==
  IF n = 6798 \/ n = 6799 THEN "Australia" ELSE TableLocation(n)

\* C7 as stated: for every four-digit postcode postcodeToLocation returns
\* the location of the specification's range table, and the location of
\* every record created by sign is the table's location of the record's
\* postcode.
C7_LocationMatchesTable ==
  /\ \A r \in Slots :
       (pc[r] # "idle" /\ req[r].postcode \in FourDigitPostcodes) =>
         postcodeToLocation(req[r].postcode) = TableLocation(PostcodeNumber(req[r].postcode))
  /\ \A i \in 1..Len(ledger) :
       ledger[i].location = TableLocation(PostcodeNumber(ledger[i].postcode))

\* C7 (amended): the same with WA for 6000-6797 and 6800-6999 only, the
\* postcodes 6798 and 6799 giving 'Australia'.
C7_LocationMatchesTableWA ==
  /\ \A r \in Slots :
       (pc[r] # "idle" /\ req[r].postcode \in FourDigitPostcodes) =>
         postcodeToLocation(req[r].postcode) = TableLocationWA(PostcodeNumber(req[r].postcode))
  /\ \A i \in 1..Len(ledger) :
       ledger[i].location = TableLocationWA(PostcodeNumber(ledger[i].postcode))

\* the signature with postcode 6798 is stored with location Australia
C7_Witness ==
  \E i \in 1..Len(ledger) :
    ledger[i].postcode = <<"6", "7", "9", "8">> /\ ledger[i].location = "Australia"


\* pct = <<i, d>> writes count / 100000 * 100 with one decimal: i.d is a
\* tenth nearest to count / 1000
OneDecimal(pct, count) ==
  LET tenths == pct[1] * 10 + pct[2] IN
    /\ pct[2] \in 0..9
    /\ 100 * tenths - 50 <= count
    /\ count <= 100 * tenths + 50

\* the response now sent by GET /count is the count of the ledger plus
\* 12847, the goal 100000 and their ratio in percent with one decimal
CountAsLedger ==
  /\ countResp'.count = Len(ledger) + 12847
  /\ countResp'.goal = 100000
  /\ OneDecimal(countResp'.percentage, countResp'.count)
  /\ Len(ledger) = 0 => countResp'.percentage = <<12, 8>>

\* C8 as stated: every response of GET /count, whether the store answered
\* or not, has count = records in the ledger + 12847, goal = 100000 and
\* percentage = count / goal * 100 with one decimal.
C8_EveryCountResponse == [][(GetCount \/ GetCountFail) => CountAsLedger]_vars

\* C8 (amended): every response of GET /count that is computed from a count
\* the store returned has count = records in the ledger + 12847, goal =
\* 100000 and percentage = count / goal * 100 with one decimal.
C8_CountResponse == [][GetCount => CountAsLedger]_vars

\* GET /count was answered from a ledger of at least four records, where
\* the percentage has passed from 12.8 to 12.9
C8_Witness ==
  /\ Len(ledger) >= 4
  /\ countResp.status = 200
  /\ countResp.count = Len(ledger) + 12847
  /\ countResp.percentage = <<12, 9>>

\* the responses of the read paths sent so far carry no error status
ReadsAnswered200 == countResp.status \in {0, 200} /\ recentResp.status \in {0, 200}

\* the name and location of the entries of a list
NamesAndLocations(list) ==
  [i \in 1..Len(list) |-> <<list[i].firstName, list[i].location>>]

\* C9: a failing store lookup never reaches the caller of a read path: GET
\* /count then answers 200 with {count: 12847, goal: 100000, percentage:
\* '12.8'} and GET /recent answers 200 with the three fallback entries
\* (Sarah M., James T., Emma L.); no read is answered with an error status.
C9_ReadsNeverFail ==
  /\ []ReadsAnswered200
  /\ [][/\ GetCountFail =>
            countResp' = [status |-> 200, count |-> 12847, goal |-> 100000,
                          percentage |-> <<12, 8>>]
        /\ GetRecentFail =>
            /\ recentResp'.status = 200
            /\ NamesAndLocations(recentResp'.body) =
                 << << <<"S", "a", "r", "a", "h", " ", "M", ".">>, "Sydney, NSW" >>,
                    << <<"J", "a", "m", "e", "s", " ", "T", ".">>, "Melbourne, VIC" >>,
                    << <<"E", "m", "m", "a", " ", "L", ".">>, "Brisbane, QLD" >> >>]_vars

\* both lookups failed over a ledger that holds records: the count response
\* does not show them and the recent list is the fallback list
C9_Witness ==
  /\ Len(ledger) > 0
  /\ countResp.status = 200
  /\ countResp.count = 12847
  /\ recentResp.status = 200
  /\ Len(recentResp.body) = 3
  /\ recentResp.body[1].location = "Sydney, NSW"

\* entry e of a response is the projection of the ledger record k
IsRecord(e, k) == "_id" \in DOMAIN e /\ e._id = ledger[k]._id

StrictlyDescending(list) ==
  \A i \in 1..(Len(list) - 1) : list[i].createdAt > list[i + 1].createdAt

NonIncreasing(list) ==
  \A i \in 1..(Len(list) - 1) : list[i].createdAt >= list[i + 1].createdAt

NoHiddenRecord(list) ==
  \A i \in 1..Len(list) :
    \A k \in 1..Len(ledger) : IsRecord(list[i], k) => ledger[k].displayName

Displayable(led) == {k \in 1..Len(led) : led[k].displayName}

\* the ledger records that have an entry in a list
Shown(list) == {k \in 1..Len(ledger) : \E i \in 1..Len(list) : IsRecord(list[i], k)}

\* the ledger record k has no entry in a list
LeftOut(list, k) == \A i \in 1..Len(list) : ~IsRecord(list[i], k)

Min(a, b) == IF a <= b THEN a ELSE b

\* C11: when the store answers, GET /recent returns exactly the min(10, k)
\* most recently created of the k ledger records with displayName true: the
\* entries are distinct displayName-true records with their own firstName,
\* location and createdAt, and every displayName-true record left out was
\* created no later than every record in the list.
C11_RecentMostRecent ==
  [][GetRecent =>
       LET list == recentResp'.body IN
         /\ Len(list) = Min(10, Cardinality(Displayable(ledger)))
         /\ \A i \in 1..Len(list) : \E k \in Displayable(ledger) :
              /\ IsRecord(list[i], k)
              /\ list[i].firstName = ledger[k].firstName
              /\ list[i].location = ledger[k].location
              /\ list[i].createdAt = ledger[k].createdAt
         /\ \A i, j \in 1..Len(list) : i # j => list[i]._id # list[j]._id
         /\ \A k \in Displayable(ledger) : LeftOut(list, k) =>
              \A i \in 1..Len(list) : ledger[k].createdAt <= list[i].createdAt]_vars

\* the store answered with 10 of more than 10 displayable records; one of
\* the records left out is older than the whole list and another one is as
\* old as the last entry of the list
C11_Witness ==
  /\ recentResp.status = 200
  /\ Len(recentResp.body) = 10
  /\ Cardinality(Shown(recentResp.body)) = 10
  /\ Cardinality(Displayable(ledger)) >= 12
  /\ \E k \in Displayable(ledger) \ Shown(recentResp.body) :
       ledger[k].createdAt < recentResp.body[10].createdAt
  /\ \E k \in Displayable(ledger) \ Shown(recentResp.body) :
       ledger[k].createdAt = recentResp.body[10].createdAt

\* other values of the fields of a signature that GET /recent is not to show
OtherPrivate ==
  [email |-> <<"z", "@", "q", ".", "y">>, lastName |-> <<"Q">>,
   postcode |-> <<"6", "0", "0", "0">>, comment |-> 7, subscribe |-> FALSE,
   ipAddress |-> "198.51.100.9"]

\* the record d with other values in those fields
Redact(d) ==
  [d EXCEPT !.email = OtherPrivate.email, !.lastName = OtherPrivate.lastName,
            !.postcode = OtherPrivate.postcode, !.comment = OtherPrivate.comment,
            !.subscribe = OtherPrivate.subscribe, !.ipAddress = OtherPrivate.ipAddress]

\* the ledger that differs from led in those fields of every record
Lookalike(led) == [i \in 1..Len(led) |-> Redact(led[i])]

\* C12: the response of GET /recent depends on no email, lastName,
\* postcode, comment, subscribe or ipAddress of a record: over the ledger
\* that differs from the present one in these fields of every record, and
\* in nothing else, the store-answered GET /recent gives the same response
\* as over the present one, and that is the response just sent.
C12_RecentHidesPrivateFields ==
  [][GetRecent =>
       LET other == Lookalike(ledger) IN
         \E tie \in TieOrders :
           /\ recentResp'.body = RecentQuery(other, tie)
           /\ recentResp'.body = RecentQuery(ledger, tie)]_vars

\* a non-empty list was sent over a ledger whose records carry an email, a
\* lastName, a postcode and an ipAddress that differ from the other values
C12_Witness ==
  /\ recentResp.status = 200
  /\ Len(recentResp.body) >= 2
  /\ Shown(recentResp.body) # {}
  /\ \A k \in Shown(recentResp.body) :
       /\ ledger[k].email # Redact(ledger[k]).email
       /\ ledger[k].lastName # Redact(ledger[k]).lastName
       /\ ledger[k].postcode # Redact(ledger[k]).postcode
       /\ ledger[k].ipAddress # Redact(ledger[k]).ipAddress
  /\ Lookalike(ledger) # ledger
  /\ \E tie \in TieOrders : recentResp.body = RecentQuery(Lookalike(ledger), tie)

\* a list sent by GET /recent that the store answered: its entries are
\* documents (the entries of the fallback list carry no _id)
FromStore(list) == \A i \in 1..Len(list) : "_id" \in DOMAIN list[i]

\* a response of GET /count that the store answers over the present ledger
CountFromStore(response) ==
  response.status = 200 /\ (response # CountFallback \/ Len(ledger) = 0)

\* the createdAt values of a list, in its order
Times(list) == [i \in 1..Len(list) |-> list[i].createdAt]

\* no two displayName-true records of the ledger have the same createdAt
NoTies(led) ==
  \A j, k \in Displayable(led) : j # k => led[j].createdAt # led[k].createdAt

\* C13 as stated: a call to GET /count returns what the call to GET /count
\* before it returned, and a call to GET /recent what the call to GET
\* /recent before it returned, when no record was inserted between the two
\* (no record is inserted in this specification).
C13_ReadsIdempotent ==
  [][/\ ((GetCount \/ GetCountFail) /\ countResp.status = 200) => countResp' = countResp
     /\ ((GetRecent \/ GetRecentFail) /\ recentResp.status = 200) => recentResp' = recentResp]_vars

\* C13 (amended): with no insert into the ledger between them, two calls to
\* GET /count that the store answers return identical results, and two
\* calls to GET /recent that the store answers return lists of the same
\* length with the same createdAt values in the same places, identical when
\* no two displayName-true records have the same createdAt.
C13_StoreReadsIdempotent ==
  [][/\ (GetCount /\ CountFromStore(countResp)) => countResp' = countResp
     /\ (GetRecent /\ recentResp.status = 200 /\ FromStore(recentResp.body)) =>
          /\ Times(recentResp'.body) = Times(recentResp.body)
          /\ NoTies(ledger) => recentResp' = recentResp]_vars

\* both reads were answered by the store, after the clock had advanced,
\* over a ledger of more than 10 displayable records of which no two have
\* the same createdAt
C13_Witness ==
  /\ now = MaxClock
  /\ Len(ledger) > 10
  /\ Cardinality(Displayable(ledger)) > 10
  /\ NoTies(ledger)
  /\ CountFromStore(countResp)
  /\ countResp.count = Len(ledger) + 12847
  /\ recentResp.status = 200
  /\ Len(recentResp.body) = 10
  /\ FromStore(recentResp.body)

\* the step is the insert of the request of slot r, answered 201
Inserts(r) == pc[r] = "save" /\ resp'[r].status = 201

\* the record stored last is the one of the request of slot r
LastSigner(r) ==
  /\ resp[r].status = 201
  /\ Len(ledger) > 0
  /\ ledger[Len(ledger)].email = SchemaEmail(req[r].email)

\* the response of GET /count sent last is the store's answer over the
\* ledger as it is now: no record was inserted since
CountIsCurrent ==
  CountFromStore(countResp) /\ countResp.count = Len(ledger) + 12847

C15_NumberAdvisory ==
  \A r1, r2 \in Slots :
    (r1 # r2 /\ resp[r1].status = 201 /\ resp[r2].status = 201) =>
      /\ NormalizeEmail(req[r1].email) # NormalizeEmail(req[r2].email)
      /\ Cardinality(RecordsOf(ledger, req[r1].email)) = 1
      /\ Cardinality(RecordsOf(ledger, req[r2].email)) = 1
      /\ RecordsOf(ledger, req[r1].email) # RecordsOf(ledger, req[r2].email)
      /\ NoDuplicateEmails
      /\ resp[r1].signatureNumber \in (0 + 1 + 12847)..(Len(ledger) + 12847)

\* the interleaving of the claim: two requests with different emails read
\* the count 0 before either insert, both were answered 201 with the number
\* 12848, both records are stored and their emails differ
C15_Witness ==
  \E r1, r2 \in Slots :
    /\ r1 # r2
    /\ resp[r1] = CreatedResp(0)
    /\ resp[r2] = CreatedResp(0)
    /\ Len(ledger) = 2
    /\ {ledger[1].email, ledger[2].email} =
         {SchemaEmail(req[r1].email), SchemaEmail(req[r2].email)}
    /\ ledger[1].email # ledger[2].email
    /\ NoDuplicateEmails

\* the step is one of the reads, answered by the store or by the fallback
ReadStep == GetCount \/ GetCountFail \/ GetRecent \/ GetRecentFail

\* C16: the ledger is append-only: every step of GET /count, GET /recent
\* and POST /sign leaves every stored record in its place with all its
\* field values, the raw count never decreases, the reads and the sign
\* requests that are not answered 201 leave the ledger as it is, and the
\* only change is one record added at the end by a sign request answered
\* 201.
C16_AppendOnly ==
  [][/\ Len(ledger') >= Len(ledger)
     /\ SubSeq(ledger', 1, Len(ledger)) = ledger
     /\ ReadStep => ledger' = ledger
     /\ \A r \in Slots :
          (pc[r] # "done" /\ pc'[r] = "done" /\ resp'[r].status # 201) => ledger' = ledger
     /\ ledger' # ledger =>
          /\ Len(ledger') = Len(ledger) + 1
          /\ \E r \in Slots : Inserts(r)]_vars

\* over a ledger of one record every kind of operation has been answered:
\* GET /count and GET /recent by the store, one sign request with 201 and
\* another one with the 500 of a refused insert
C16_Witness ==
  /\ Len(ledger) = 1
  /\ countResp.status = 200
  /\ countResp.count = 1 + 12847
  /\ recentResp.status = 200
  /\ Len(recentResp.body) >= 1
  /\ FromStore(recentResp.body)
  /\ \E r1, r2 \in Slots :
       /\ resp[r1].status = 201
       /\ resp[r2].status = 500
       /\ err[r2] = "E11000"

\* the errors a store call of POST /sign ends with: the store is
\* unreachable, save() rejects the document, the unique index refuses it
StoreErrors == {"unavailable", "ValidationError", "E11000"}

\* C17: whenever the duplicate lookup, the count or the insert of a POST
\* /sign request fails, the request ends there with status 500 and the
\* message 'Failed to record signature. Please try again.', the same
\* response whatever the error was, and the ledger is as it was before the
\* step; a request that ended so has that response and no number.
C17_GenericFailure ==
  /\ [][\A r \in Slots :
          (pc[r] \in {"findOne", "count", "save"} /\ err'[r] \in StoreErrors) =>
            /\ pc'[r] = "done"
            /\ resp'[r] = [status |-> 500, errors |-> <<>>,
                           error |-> "Failed to record signature. Please try again.",
                           message |-> "", signatureNumber |-> 0]
            /\ ledger' = ledger]_vars
  /\ [](\A r \in Slots :
          /\ err[r] \in StoreErrors \cup {"none"}
          /\ resp[r].status = 500 <=> err[r] \in StoreErrors
          /\ \A r2 \in Slots :
               (err[r] \in StoreErrors /\ err[r2] \in StoreErrors) => resp[r] = resp[r2])

\* two requests failed on different errors, one on a document save()
\* rejected and one on an unreachable store: they were answered alike and
\* the ledger is empty
C17_Witness ==
  \E r1, r2 \in Slots :
    /\ err[r1] = "ValidationError"
    /\ err[r2] = "unavailable"
    /\ resp[r1].status = 500
    /\ resp[r1] = resp[r2]
    /\ resp[r1].error = "Failed to record signature. Please try again."
    /\ Len(ledger) = 0

(***************************************************************************)
(* Properties of the administrative routes.                                *)
(***************************************************************************)
\* the header has the form 'Bearer <token>' with the token t
BearerOf(h, t) == h = HeaderOf(Bearer \o <<t>>)

\* the token is a JWT signed with the secret
SignedToken(t) == Decode(t).form = "jwt" /\ Decode(t).key = JWT_SECRET

\* the request carries 'Bearer <token>' with a token that verifies against
\* the secret: signed with it, active and not expired
CarriesVerifiedToken(h) ==
  \E t \in Tokens :
    /\ BearerOf(h, t)
    /\ SignedToken(t)
    /\ Decode(t).nbf <= now
    /\ now < Decode(t).exp

\* the request carries 'Bearer <token>' with a token signed with the
\* secret that is not active yet
CarriesEarlyToken(h) ==
  \E t \in Tokens : BearerOf(h, t) /\ SignedToken(t) /\ Decode(t).nbf > now

\* the statuses of the documents of a collection
StatusOf(docs) == [i \in 1..Len(docs) |-> docs[i].status]

\* C18 as stated: a step changes a story only when it is the handler of a
\* PUT /api/stories/:id/status request that carries a verified token; the
\* auth middleware answers every other such request with 401, the handler
\* is not run and no story is modified.
C18_StoriesGuardedElse401 ==
  [][/\ stories' # stories =>
          /\ areq.route = "stories/:id/status"
          /\ apc = "handler"
          /\ CarriesVerifiedToken(areq.header)
     /\ (apc = "auth" /\ apc' # "auth" /\ ~CarriesVerifiedToken(areq.header)) =>
          /\ apc' = "done"
          /\ aresp'.status = 401
          /\ stories' = stories]_vars

\* C18 (amended): the same, the auth middleware answering every other
\* request with 401, or with 500 when its token is signed with the secret
\* but not active yet; the request whose token verifies is passed on to the
\* handler.
C18_StoriesGuarded ==
  [][/\ stories' # stories =>
          /\ areq.route = "stories/:id/status"
          /\ apc = "handler"
          /\ CarriesVerifiedToken(areq.header)
     /\ (apc = "auth" /\ apc' # "auth" /\ ~CarriesVerifiedToken(areq.header)) =>
          /\ apc' = "done"
          /\ aresp'.status = IF CarriesEarlyToken(areq.header) THEN 500 ELSE 401
          /\ aresp'.body = <<>>
          /\ stories' = stories
     /\ (apc = "auth" /\ apc' # "auth" /\ CarriesVerifiedToken(areq.header)) =>
          apc' = "handler" /\ stories' = stories]_vars

\* a story was published by a request with a verified token, and the
\* request after it, to reject the same story with a token signed with
\* another key, was answered 401
C18_Witness ==
  /\ apc = "done"
  /\ areq.route = "stories/:id/status"
  /\ areq.header = HeaderOf(Bearer \o <<"<token signed with another key>">>)
  /\ areq.id = 1
  /\ aresp.status = 401
  /\ stories[1].status = "published"
  /\ stories[1].updatedAt = now

\* C19: a GET /api/contact or PUT /api/contact/:id/status request that
\* carries no verified token is answered without any stored message and
\* changes no message.
C19_ContactGuarded ==
  [][(/\ areq.route \in {"contact", "contact/:id/status"}
      /\ apc = "handler"
      /\ apc' = "done"
      /\ ~CarriesVerifiedToken(areq.header)) =>
       /\ aresp'.body = <<>>
       /\ messages' = messages]_vars

\* C20: every record of the ledger has verified = false, also the record
\* of a request whose body carried verified: true, and no step of a
\* petition route changes the verified field of a stored record.
C20_NeverVerified ==
  /\ [](\A i \in 1..Len(ledger) : ledger[i].verified = FALSE)
  /\ [][\A i \in 1..Len(ledger) :
          i <= Len(ledger') /\ ledger'[i].verified = ledger[i].verified]_vars

\* a request whose body carried verified: true was answered 201 and its
\* record is stored with verified = false
C20_Witness ==
  \E r \in Slots :
    /\ req[r].verified = JsTrue
    /\ resp[r].status = 201
    /\ \E i \in 1..Len(ledger) :
         ledger[i].email = SchemaEmail(req[r].email) /\ ledger[i].verified = FALSE

(***************************************************************************)
(* Properties of the optional flags of a signature.                        *)
(***************************************************************************)
\* the record that the step inserts for the request of slot r
Inserted(r) == ledger'[Len(ledger')]

\* C21: a record created by POST /sign has displayName = false exactly
\* when displayName of the request body is the boolean false, and true for
\* every other value (absent, true, null, a number, a string); the same
\* holds for subscribe.  A store-answered GET /recent lists the record of a
\* signer who left displayName out.
C21_FlagsFalseOnlyWhenFalse ==
  /\ [][\A r \in Slots : Inserts(r) =>
          /\ Inserted(r).displayName = (IF req[r].displayName = JsFalse THEN FALSE ELSE TRUE)
          /\ Inserted(r).subscribe = (IF req[r].subscribe = JsFalse THEN FALSE ELSE TRUE)]_vars
  /\ [][(GetRecent /\ Len(ledger) = 1 /\ req[1].displayName = JsUndefined) =>
          /\ Len(recentResp'.body) = 1
          /\ IsRecord(recentResp'.body[1], 1)]_vars

\* the record of a signer who sent the string 'false' in displayName and
\* null in subscribe is stored with both flags true and listed by GET
\* /recent
C21_Witness ==
  /\ req[1].displayName = JsStringFalse
  /\ req[1].subscribe = JsNull
  /\ resp[1].status = 201
  /\ Len(ledger) = 1
  /\ ledger[1].displayName = TRUE
  /\ ledger[1].subscribe = TRUE
  /\ recentResp.status = 200
  /\ Len(recentResp.body) = 1
  /\ "_id" \in DOMAIN recentResp.body[1]

\* C22: a registration stored for a POST /register request whose body has
\* no displayName field has displayName = false.
C22_PrivateByDefault ==
  [][(RegisterSave /\ gresp'.status = 201 /\ greq.displayName = JsUndefined) =>
       registrations'[Len(registrations')].displayName = FALSE]_vars

(***************************************************************************)
(* Properties of the rate limiter.                                         *)
(***************************************************************************)
\* the window of client c that is running now holds n requests that
\* reached a route handler
ServedInWindow(c, n) == ~Expired(c, now) /\ served[c] = n

MovedFirst(tests, i) ==
  <<tests[i]>> \o SubSeq(tests, 1, i - 1) \o SubSeq(tests, i + 1, Len(tests))

\* the list of range tests in the opposite order
RECURSIVE Reversed(_)
Reversed(tests) ==
  IF tests = <<>> THEN <<>> ELSE Reversed(Tail(tests)) \o <<Head(tests)>>

\* C24: the range tests of postcodeToLocation are pairwise disjoint: the
\* postcode of a request satisfies at most one of them, and the location
\* that postcodeToLocation returns is the one that the tests give in the
\* order of the code, in the opposite order and with any one test tried
\* first.
C24_RangesDisjoint ==
  \A r \in Slots :
    (pc[r] # "idle" /\ req[r].postcode \in FourDigitPostcodes) =>
      LET code == ParseInt(req[r].postcode)
          location == postcodeToLocation(req[r].postcode)
      IN /\ Cardinality({i \in 1..Len(RangeTests) : Satisfies(code, RangeTests[i])}) <= 1
         /\ location = LocationBy(RangeTests, code)
         /\ location = LocationBy(Reversed(RangeTests), code)
         /\ \A i \in 1..Len(RangeTests) :
              location = LocationBy(MovedFirst(RangeTests, i), code)

\* a signature with one of the postcodes 2618, 2619, 2898 and 2899, where
\* the NSW and ACT ranges meet, is stored with its location: ACT, NSW, NSW
\* and ACT
C24_Witness ==
  /\ Len(ledger) = 1
  /\ ledger[1].postcode \in {<<"2", "6", "1", "8">>, <<"2", "8", "9", "9">>}
       => ledger[1].location = "ACT"
  /\ ledger[1].postcode \in {<<"2", "6", "1", "9">>, <<"2", "8", "9", "8">>}
       => ledger[1].location = "NSW"
  /\ ledger[1].postcode \in {<<"2", "6", "1", "8">>, <<"2", "6", "1", "9">>,
                             <<"2", "8", "9", "8">>, <<"2", "8", "9", "9">>}

(***************************************************************************)
(* Properties of the stories.                                              *)
(***************************************************************************)
\* the stored story of that id, as a list of one or none
StoredStory(id) == FindById(stories, id)

\* the step is a public read of the stories answered from the store
StoryReadStep == StoryList \/ StoryGet

\* C25: every story is created with status 'pending'; GET /api/stories and
\* GET /api/stories/:id answer from the store with stored stories whose
\* status is 'published' only, GET /api/stories/:id answering 404 for a
\* story that is pending or rejected; and the status of a stored story
\* becomes 'published' only by the handler of the status update.
C25_VisibleOnlyWhenPublished ==
  /\ [][StoryCreate =>
          \A i \in (Len(stories) + 1)..Len(stories') : stories'[i].status = "pending"]_vars
  /\ [][StoryReadStep =>
          \A k \in 1..Len(aresp'.body) :
            /\ StoredStory(aresp'.body[k]._id) # <<>>
            /\ StoredStory(aresp'.body[k]._id)[1].status = "published"]_vars
  /\ [][(StoryGet /\ StoredStory(areq.id) # <<>>
                  /\ StoredStory(areq.id)[1].status \in {"pending", "rejected"}) =>
          aresp'.status = 404 /\ aresp'.body = <<>>]_vars
  /\ [][(\E i \in 1..Len(stories) :
           stories[i].status # "published" /\ stories'[i].status = "published") =>
          StoryStatus /\ areq.status = "published"]_vars

\* of two stories submitted the first was published and the second
\* rejected by status updates, and GET /api/stories/:id returns the first
C25_Witness ==
  /\ Len(stories) = 2
  /\ stories[1].status = "published"
  /\ stories[2].status = "rejected"
  /\ areq.route = "GET stories/:id"
  /\ areq.id = 1
  /\ aresp.status = 200
  /\ Len(aresp.body) = 1
  /\ aresp.body[1]._id = 1

(***************************************************************************)
(* Properties of the status updates.                                       *)
(***************************************************************************)
\* the request in hand is a status update whose status is not one of the
\* values allowed on its route
InvalidStatusUpdate ==
  \/ areq.route = "stories/:id/status" /\ areq.status \notin {"pending", "published", "rejected"}
  \/ areq.route = "contact/:id/status" /\ areq.status \notin {"new", "read", "replied", "archived"}

\* the step sends the response to the request in hand
Answers == apc # "done" /\ apc' = "done"

\* every stored story and contact message has a status allowed for it
StatusesAllowed ==
  /\ \A i \in 1..Len(stories) : stories[i].status \in {"pending", "published", "rejected"}
  /\ \A i \in 1..Len(messages) : messages[i].status \in {"new", "read", "replied", "archived"}

\* C26 as stated: a status update with a value outside the allowed set is
\* answered 400 'Invalid status' and modifies no document, on PUT
\* /api/stories/:id/status and on PUT /api/contact/:id/status, and every
\* stored story and contact message has an allowed status.
C26_InvalidStatus400 ==
  /\ [][(InvalidStatusUpdate /\ Answers) =>
          /\ aresp'.status = 400
          /\ aresp'.error = "Invalid status"
          /\ stories' = stories
          /\ messages' = messages]_vars
  /\ []StatusesAllowed

\* C26 (amended): a status update with a value outside the allowed set
\* modifies no document; it is answered 400 'Invalid status' by the handler,
\* which on PUT /api/stories/:id/status runs only after the auth middleware
\* accepted the token, the other requests being answered 401 or 500 by the
\* middleware; every stored story and contact message has an allowed
\* status.
C26_InvalidStatusRejected ==
  /\ [][(InvalidStatusUpdate /\ Answers) =>
          /\ stories' = stories
          /\ messages' = messages
          /\ IF Auth
               THEN aresp'.status \in {401, 500} /\ ~CarriesVerifiedToken(areq.header)
               ELSE aresp'.status = 400 /\ aresp'.error = "Invalid status"]_vars
  /\ [][(InvalidStatusUpdate /\ (StoryStatus \/ ContactStatus)) =>
          aresp'.status = 400 /\ aresp'.error = "Invalid status"]_vars
  /\ []StatusesAllowed

\* a status update of a stored story that carried a verified token and the
\* status 'read' was answered 400, the story keeping its status
C26_Witness ==
  /\ areq.route = "stories/:id/status"
  /\ areq.status = "read"
  /\ CarriesVerifiedToken(areq.header)
  /\ FindById(stories, areq.id) # <<>>
  /\ FindById(stories, areq.id)[1].status = "pending"
  /\ apc = "done"
  /\ aresp.status = 400
  /\ aresp.error = "Invalid status"
  /\ \E i \in 1..Len(messages) : messages[i].status = "read"

(***************************************************************************)
(* Properties of the quiz submissions.                                     *)
(***************************************************************************)
\* the JSON text of the index of the correct option of each question
CorrectIndex == <<"2", "2", "1", "2", "1">>

\* the handler has answered the submission in hand with a score
Scored == qpc = "done" /\ qresp.status = 200

\* the positions among the first five whose answer is the number that is the
\* index of the correct option
NumberCorrect ==
  {i \in 1..Len(qreq.answers) : i <= 5 /\ qreq.answers[i] = CorrectIndex[i]}

\* the positions among the first five whose answer has the property key of
\* the index of the correct option
KeyCorrect ==
  {i \in 1..Len(qreq.answers) : i <= 5 /\ PropertyKey(qreq.answers[i]) = CorrectIndex[i]}

\* C27 as stated: the returned score is the number of positions i < 5 at
\* which answers[i] is the index of the correct option of question i, whatever
\* the values of the entries; total is 5 and percentage is
\* round(score / 5 * 100).
C27_ScoreCountsIndexes ==
  Scored =>
    /\ qresp.score = Cardinality(NumberCorrect)
    /\ qresp.total = 5
    /\ qresp.percentage = 20 * qresp.score

\* C27 (amended): the returned score is the number of positions i < 5 at
\* which answers[i], converted to a property key as options[answer] converts
\* it (the number 2, the string '2' and the array [2] all give the key 2), is
\* the index of the correct option of question i; so 0 <= score <= 5, total
\* is 5 and percentage is round(score / 5 * 100), within 0..100; entries
\* beyond the fifth position and entries that name no option add nothing.
C27_ScoreCountsKeys ==
  Scored =>
    /\ qresp.score = Cardinality(KeyCorrect)
    /\ qresp.score \in 0..5
    /\ qresp.total = 5
    /\ qresp.percentage = 20 * qresp.score
    /\ qresp.percentage \in 0..100

\* a submission of six answers is scored 4: one of the first five names no
\* option, one is the string '2', and the sixth is a correct index elsewhere
C27_Witness ==
  /\ Scored
  /\ Len(qreq.answers) = 6
  /\ qresp.score = 4
  /\ qreq.answers[6] = "2"
  /\ \E i \in 1..5 : qreq.answers[i] = "9"
  /\ \E i \in 1..5 : qreq.answers[i] = "'2'"

(***************************************************************************)
(* Properties of the signature number under interleaving.                  *)
(***************************************************************************)
\* the request of slot r was answered 201: its insert has landed
Landed(r) == pc[r] = "done" /\ resp[r].status = 201

\* C28 as stated: under any interleaving the signatureNumber of a successful
\* POST /sign is greater than 12847 and is never more than the count of a
\* response of GET /count made after the insert of that request landed.
C28_NumberWithinReportedCount ==
  /\ [](\A r \in Slots : Landed(r) => resp[r].signatureNumber > 12847)
  /\ [][(GetCount \/ GetCountFail) =>
          \A r \in Slots : Landed(r) => resp[r].signatureNumber <= countResp'.count]_vars

\* C28 (amended): under any interleaving the signatureNumber of a successful
\* POST /sign is greater than 12847, is never more than 12847 + the number
\* of records in the ledger once its insert has landed, and is never more
\* than the count of a later response of GET /count that was computed from
\* the store's count.
C28_NumberWithinStoreCount ==
  /\ [](\A r \in Slots : Landed(r) =>
          /\ resp[r].signatureNumber > 12847
          /\ resp[r].signatureNumber <= 12847 + Len(ledger))
  /\ [][GetCount =>
          \A r \in Slots : Landed(r) => resp[r].signatureNumber <= countResp'.count]_vars

\* two requests counted the empty ledger before either insert landed: both
\* carry the number 12848, and GET /count has answered 12849 since
C28_Witness ==
  /\ Landed(1) /\ Landed(2)
  /\ resp[1].signatureNumber = 12848
  /\ resp[2].signatureNumber = 12848
  /\ countResp.count = 12849

(***************************************************************************)
(* Properties of the order of the steps of POST /sign.                     *)
(***************************************************************************)
\* the moves of a request from one step of the handler to another:
\* validation, duplicate lookup, count, insert, each of which may end it
StepOrder ==
  {<<"idle", "received">>, <<"received", "findOne">>, <<"received", "done">>,
   <<"findOne", "count">>, <<"findOne", "done">>, <<"count", "save">>,
   <<"count", "done">>, <<"save", "done">>}

\* the request of slot r is at the validation and fails it
FailsValidation(r) == pc[r] = "received" /\ ValidationErrors(req[r]) # <<>>

\* C29: the steps of POST /sign run in the order validation, duplicate
\* lookup, count, insert, and an answered request takes no further step; a
\* request that fails validation is answered at the validation with the
\* list of its errors, whether or not its email is in the ledger, without a
\* lookup, a count or an insert; a request answered as a duplicate ends at
\* the lookup, without a count or an insert; the count is read at the count
\* step only and a record is inserted at the insert step only.
C29_ValidationFirstFixedOrder ==
  /\ [][\A r \in Slots : pc'[r] # pc[r] => <<pc[r], pc'[r]>> \in StepOrder]_vars
  /\ [][\A r \in Slots :
          (FailsValidation(r) /\ pc'[r] # pc[r]) =>
            /\ pc'[r] = "done"
            /\ resp'[r] = ValidationResp(ValidationErrors(req[r]))
            /\ ledger' = ledger
            /\ cnt'[r] = cnt[r]]_vars
  /\ [][\A r \in Slots :
          (resp[r] # DuplicateResp /\ resp'[r] = DuplicateResp) =>
            /\ pc[r] = "findOne" /\ pc'[r] = "done"
            /\ ledger' = ledger]_vars
  /\ [][\A r \in Slots :
          cnt'[r] # cnt[r] => pc[r] \in {"count", "save"}]_vars
  /\ [][ledger' # ledger => \E r \in Slots : pc[r] = "save" /\ pc'[r] = "done"]_vars

\* the email of the first request is in the ledger and the second request,
\* which carries it too, was answered with its validation errors
C29_Witness ==
  /\ Landed(1)
  /\ pc[2] = "done"
  /\ resp[2].status = 400 /\ resp[2].errors # <<>>
  /\ FindOne(ledger, req[2].email) # 0

(***************************************************************************)
(* Properties of the Quiz of the page.                                     *)
(***************************************************************************)
\* the questions whose recorded answer is the correct option
RecordedCorrect ==
  {i \in 1..Len(questions) :
     thisAnswers[i] # -1 /\ questions[i][thisAnswers[i] + 1] = 1}

\* C30: after any sequence of selections and of clicks on Next, Previous
\* and 'Take Quiz Again', the score is the number of questions whose
\* recorded answer is the correct option; so the score is at most the
\* number of questions and the percentage of the results is at most 100.
C30_ScoreCountsRecordedCorrect ==
  /\ thisScore = Cardinality(RecordedCorrect)
  /\ thisScore <= Len(questions)
  /\ container.view = "results" => container.percentage <= 100

====
